---- MODULE Spec2Model ----
(***************************************************************************)
(* na::ref_ptr (src/include/na/ref_ptr.hpp, lines 1-1052): referable<T>,   *)
(* enable_ref_from_this<T>, ref_ptr<T>, the tracked ref_counter and the    *)
(* process-wide referable-after-free handler, under the three strategies   *)
(* na_ref_ptr_uncounted, na_ref_ptr_counted and na_ref_ptr_tracked.        *)
(*                                                                         *)
(* Objects are identified by slots: an owner slot holds one referable or   *)
(* one enable_ref_from_this object during the run, a handle slot holds one *)
(* ref_ptr.  A slot is used once, so the storage of a destroyed object is  *)
(* still told apart from every live object.  An access to a destroyed      *)
(* object or through a null pointer is undefined behaviour.  No outcome of *)
(* it is picked: the operation that makes the access ends in               *)
(* proc = "undefined" with ub the kinds of undefined access it made, and   *)
(* the run is followed no further (a fault, a read or a write of stale     *)
(* storage are all possible from there).  The objects of a process whose   *)
(* behaviour is undefined, or that hangs, are not modelled: their          *)
(* variables are blanked.  A process that terminated, hung or became       *)
(* undefined takes no more steps.                                          *)
(***************************************************************************)
EXTENDS Integers, Sequences, FiniteSets

\* Bounds of the model: owner slots and handle slots of a run.  The list
\* states of the tracked build grow by two orders of magnitude with every
\* handle, so a tracked run is explored either with one owner fewer or with
\* one handle fewer (Budgets).
NumOwners == 2
MaxHandles == 3
\* Threads of the runs in which several threads use one registry or the
\* handler slot, and the registrations one thread makes in a run.
NumThreads == 2
MaxRegs == 2
\* size_t is modelled SizeBits wide: ref_count wraps modulo 2^SizeBits.
SizeBits == 3

Owners == 1..NumOwners
Handles == 1..MaxHandles
SizeMod == 2 ^ SizeBits

Strategies == {"uncounted", "counted", "tracked"}
\* "default" is the handler the slot is initialised with; "flag" is a user
\* handler that records the call and returns (tests/counted_tests.cpp).
Handlers == {"default", "flag"}
\* Member offsets inside a boxed value: 0 is the value itself (and its
\* first member), 1 a further member (struct test {int a; float b;}).
Fields == {0, 1}

VARIABLES
    build,          \* how the translation unit is compiled: the macros defined
                    \* before the header is included, exceptions enabled or not
    strategy,       \* which of the three implementations is compiled in
    budget,         \* <<owner slots, handle slots>> this run may use
    referable_after_free_handler_instance,  \* the handler slot
    proc,           \* "running" | "terminated" | "hung" | "undefined"
    ub,             \* kinds of undefined access the last operation made
                    \* ("cyclic_list": the message walk of a cyclic list)
    ostate,         \* owner slot: "none" | "alive" | "destroyed"
    okind,          \* owner slot: "referable" | "enable_ref_from_this"
    boxed,          \* referable::value: the value the box holds (0: no box)
    owner_ref_count,\* the owner's ref_count (counted: the atomic; tracked: ref_counter::ref_count)
    next,           \* ref_list_node::next of every head and handle node
    prev,           \* ref_list_node::prev of every head and handle node
    mutex,          \* ref_counter::mutex of every owner: the thread holding it, 0 = free
    hstate,         \* handle slot: "none" | "live" | "destroyed"
    ref_count,      \* ref_ptr::ref_count: the owner whose registry it points to, 0 = nullptr
    value,          \* ref_ptr::value: <<owner, offset>>, <<0, 0>> = nullptr
    report,         \* per owner: the handler calls its destructor made
    referable_after_free_handler_mutex,  \* detail::referable_after_free_handler_mutex: the thread holding it, 0 = free
    threads         \* per thread: where it is in the call it is making

sysVars == <<strategy, budget, build, referable_after_free_handler_instance, proc, ub>>
ownerVars == <<ostate, okind, owner_ref_count, boxed>>
listVars == <<next, prev, mutex>>
handleVars == <<hstate, ref_count, value>>
threadVars == <<referable_after_free_handler_mutex, threads>>
vars == <<sysVars, ownerVars, listVars, handleVars, report, threadVars>>

\* ------------------------------------------------------------------- build

\* The macros that select an implementation, and the other macros the
\* header tests: hpp:13 tests NDEBUB, the toolchain defines NDEBUG.
StrategyMacros == {"na_ref_ptr_uncounted", "na_ref_ptr_counted", "na_ref_ptr_tracked"}
Macros == StrategyMacros \cup {"NDEBUG", "NDEBUB"}

\* hpp:9-19: what the header defines itself when the translation unit
\* defined none of the three strategy macros.
default_strategy_macros(defined) ==
    IF defined \cap StrategyMacros = {}
    THEN IF "NDEBUB" \in defined
         THEN {"na_ref_ptr_counted"}
         ELSE {"na_ref_ptr_tracked"}
    ELSE {}

\* hpp:1030-1048: the implementation the names na::referable, na::ref_ptr
\* and na::enable_ref_from_this are aliases of.
selected_strategy(defined) ==
    LET d == defined \cup default_strategy_macros(defined) IN
    IF "na_ref_ptr_uncounted" \in d THEN "uncounted"
    ELSE IF "na_ref_ptr_counted" \in d THEN "counted"
    ELSE "tracked"

\* The builds of a translation unit that defines at most one strategy macro.
Builds ==
    {[defined |-> D, exceptions |-> e] :
        D \in {X \in SUBSET Macros : Cardinality(X \cap StrategyMacros) <= 1},
        e \in BOOLEAN}

\* The build that defines the macro of strategy st and nothing else.
ExplicitBuild(st) ==
    [defined |-> {CHOOSE m \in StrategyMacros : selected_strategy({m}) = st},
     exceptions |-> TRUE]

\* ---------------------------------------------------------------- pointers

NullReg == 0
NullValue == <<0, 0>>
NullNode == <<"null", 0>>
HeadOf(o) == <<"head", o>>
NodeOf(h) == <<"node", h>>
NodeRefs == {HeadOf(o) : o \in Owners} \cup {NodeOf(h) : h \in Handles}
UBKinds == {"dead_registry", "null_prev", "dead_node", "cyclic_list", "no_return"}

\* Fault: the counting members and calls compiled in under every strategy.
CountingAlways == TRUE

\* Fault: the address of the boxed value whatever member is named.
AddrOfWholeValue(o, f) == <<o, 0>>

\* &ref.value (offset 0) and &(ref.value.*mem_var_ptr)
AddrOf(o, f) == <<o, f>>
\* &(other.value->*mem_var_ptr): the member's offset added to the pointer
Project(v, f) == <<v[1], v[2] + f>>

Counting == strategy \in {"counted", "tracked"}

\* The storage a node reference names belongs to a destroyed object.
DeadNode(r) ==
    \/ r[1] = "head" /\ ostate[r[2]] = "destroyed"
    \/ r[1] = "node" /\ hstate[r[2]] = "destroyed"
DeadReg(o) == ostate[o] = "destroyed"

Wrap(n) == n % SizeMod

\* ------------------------------------------------- memory of one operation

\* The registries and list nodes as one operation sees and changes them.
\* An operation is a sequence of add_ref / remove_ref calls; each call maps a
\* memory to the memory it leaves.
Memory ==
    [cnt |-> owner_ref_count, nx |-> next, pv |-> prev, ub |-> ub, proc |-> proc]

\* A call that makes no undefined access ends in `done`; one that makes the
\* undefined accesses `kinds` makes the behaviour of the operation undefined.
Outcome(M, done, kinds) ==
    IF kinds = {} THEN done
    ELSE [M EXCEPT !.proc = "undefined", !.ub = kinds]

\* ref_counter::add_ref(node), hpp:102-110 (tracked)
ref_counter_add_ref(M, o, n) ==
    IF M.proc # "running" THEN M
    ELSE LET done == [M EXCEPT !.cnt[o] = Wrap(@ + 1),
                               !.nx = [M.nx EXCEPT ![n] = M.nx[HeadOf(o)],
                                                   ![HeadOf(o)] = n],
                               !.pv[n] = HeadOf(o)]
             kinds == IF DeadReg(o) THEN {"dead_registry"} ELSE {}
         IN  Outcome(M, done, kinds)

\* ref_counter::remove_ref(node), hpp:112-127 (tracked)
ref_counter_remove_ref(M, o, n) ==
    IF M.proc # "running" THEN M
    ELSE LET p == M.pv[n]
             x == M.nx[n]
             \* node->prev->next = node->next
             nx1 == IF p = NullNode THEN M.nx ELSE [M.nx EXCEPT ![p] = x]
             \* if (node->next != nullptr) node->next->prev = node->prev
             pv1 == IF x # NullNode THEN [M.pv EXCEPT ![x] = p] ELSE M.pv
             done == [M EXCEPT !.cnt[o] = Wrap(@ - 1),
                               !.nx = [nx1 EXCEPT ![n] = NullNode],
                               !.pv = [pv1 EXCEPT ![n] = NullNode]]
             kinds == (IF DeadReg(o) THEN {"dead_registry"} ELSE {})
                      \cup (IF p = NullNode THEN {"null_prev"} ELSE {})
                      \cup (IF p # NullNode /\ p[1] = "head" /\ DeadNode(p)
                            THEN {"dead_registry"} ELSE {})
                      \cup (IF p # NullNode /\ p[1] = "node" /\ DeadNode(p)
                            THEN {"dead_node"} ELSE {})
                      \cup (IF x # NullNode /\ DeadNode(x)
                            THEN {"dead_node"} ELSE {})
         IN  Outcome(M, done, kinds)

\* ++(*ref_count) on the std::atomic_size_t, hpp:999 (counted)
atomic_increment(M, o) ==
    IF M.proc # "running" THEN M
    ELSE Outcome(M, [M EXCEPT !.cnt[o] = Wrap(@ + 1)],
                  IF DeadReg(o) THEN {"dead_registry"} ELSE {})

\* --(*ref_count) on the std::atomic_size_t, hpp:1008 (counted)
atomic_decrement(M, o) ==
    IF M.proc # "running" THEN M
    ELSE Outcome(M, [M EXCEPT !.cnt[o] = Wrap(@ - 1)],
                  IF DeadReg(o) THEN {"dead_registry"} ELSE {})

\* Fault: an add_ref() that registers nothing.
add_ref_skipped(M, reg, h) == M

\* Fault: a remove_ref() that deregisters nothing.
remove_ref_skipped(M, reg, h) == M

\* ref_ptr::add_ref(), hpp:996-1003: handle h registers with the registry
\* its ref_count member points to (reg).
ref_ptr_add_ref(M, reg, h) ==
    IF strategy = "counted" THEN atomic_increment(M, reg)
    ELSE IF strategy = "tracked" THEN ref_counter_add_ref(M, reg, NodeOf(h))
    ELSE M

\* ref_ptr::remove_ref(), hpp:1005-1012
ref_ptr_remove_ref(M, reg, h) ==
    IF strategy = "counted" THEN atomic_decrement(M, reg)
    ELSE IF strategy = "tracked" THEN ref_counter_remove_ref(M, reg, NodeOf(h))
    ELSE M

\* if (ref_count != nullptr) add_ref();  and the same for remove_ref
add_ref_if_bound(M, reg, h) ==
    IF Counting /\ reg # NullReg THEN ref_ptr_add_ref(M, reg, h) ELSE M
remove_ref_if_bound(M, reg, h) ==
    IF Counting /\ reg # NullReg THEN ref_ptr_remove_ref(M, reg, h) ELSE M

\* The memory an operation that ran to its end leaves becomes the state.
Commit(M) ==
    /\ owner_ref_count' = M.cnt
    /\ next' = M.nx
    /\ prev' = M.pv
    /\ UNCHANGED <<proc, ub, mutex>>

\* ref_counter::get_ref(), hpp:129-132; the counted strategy reads the atomic
get_ref(o) == owner_ref_count[o]

\* The nodes get_referable_after_free_message visits: node = head.next;
\* while (node != nullptr) { ...; node = node->next; }, hpp:147-152.
\* `fuel` bounds the walk of a list that has become cyclic.
RECURSIVE WalkFrom(_, _)
WalkFrom(node, fuel) ==
    IF node = NullNode THEN <<>>
    ELSE IF fuel = 0 THEN <<node>>
    ELSE <<node>> \o WalkFrom(next[node], fuel - 1)

\* ref_counter::get_referable_after_free_message(), hpp:134-155: the count
\* and, in list order, the nodes whose location the message names.
get_referable_after_free_message(o) ==
    [n |-> owner_ref_count[o], nodes |-> WalkFrom(next[HeadOf(o)], MaxHandles)]

\* The walk never ends: more nodes visited than there are nodes.
WalkLoops(msg) == Len(msg.nodes) > MaxHandles
WalkKinds(msg) ==
    IF \E i \in 1..Len(msg.nodes) : DeadNode(msg.nodes[i]) THEN {"dead_node"} ELSE {}

\* ------------------------------------------------------------------ state

Budgets(st) ==
    IF st = "tracked"
    THEN {<<NumOwners - 1, MaxHandles>>, <<NumOwners, MaxHandles - 1>>}
    ELSE {<<NumOwners, MaxHandles>>}

NoObjects ==
    /\ ostate = [o \in Owners |-> "none"]
    /\ okind = [o \in Owners |-> "none"]
    /\ owner_ref_count = [o \in Owners |-> 0]
    /\ boxed = [o \in Owners |-> 0]
    /\ next = [r \in NodeRefs |-> NullNode]
    /\ prev = [r \in NodeRefs |-> NullNode]
    /\ mutex = [o \in Owners |-> 0]
    /\ hstate = [h \in Handles |-> "none"]
    /\ ref_count = [h \in Handles |-> NullReg]
    /\ value = [h \in Handles |-> NullValue]
    /\ report = [o \in Owners |-> <<>>]

Threads == 1..NumThreads
\* A thread that is in no call: pc the step it is at, tmp the register of a
\* read-modify-write (the count a call read), regs and deregs the add_ref()
\* and remove_ref() calls its handles have completed, arg the handler it
\* passes to set_referable_after_free_handler, got the handler its last
\* get_referable_after_free_handler returned, this and other the handles of
\* the assignment it is in and owner the owner whose destructor it is in
\* (0: none).
IdleThread ==
    [pc |-> "idle", tmp |-> 0, regs |-> 0, deregs |-> 0, arg |-> "none", got |-> "none",
     this |-> 0, other |-> 0, owner |-> 0]
NoThreads ==
    /\ referable_after_free_handler_mutex = 0
    /\ threads = [t \in Threads |-> IdleThread]

\* One thread makes every call; the translation unit names its strategy.
Init ==
    /\ strategy \in Strategies
    /\ build = ExplicitBuild(strategy)
    /\ budget \in Budgets(strategy)
    /\ referable_after_free_handler_instance = "default"
    /\ proc = "running"
    /\ ub = {}
    /\ NoObjects
    /\ NoThreads

\* The process stops being modelled: proc becomes p ("undefined" or "hung")
\* and every object variable is blanked.
Stop(p, kinds) ==
    /\ proc' = p
    /\ ub' = kinds
    /\ referable_after_free_handler_instance' = "default"
    /\ ostate' = [o \in Owners |-> "none"]
    /\ okind' = [o \in Owners |-> "none"]
    /\ owner_ref_count' = [o \in Owners |-> 0]
    /\ boxed' = [o \in Owners |-> 0]
    /\ next' = [r \in NodeRefs |-> NullNode]
    /\ prev' = [r \in NodeRefs |-> NullNode]
    /\ mutex' = [o \in Owners |-> 0]
    /\ hstate' = [h \in Handles |-> "none"]
    /\ ref_count' = [h \in Handles |-> NullReg]
    /\ value' = [h \in Handles |-> NullValue]
    /\ report' = [o \in Owners |-> <<>>]
    /\ UNCHANGED <<strategy, budget, build, threadVars>>

Running == proc = "running"
\* Slots are taken in order: the next object gets the lowest unused slot.
FreshOwner(o) ==
    /\ o <= budget[1]
    /\ ostate[o] = "none"
    /\ \A k \in Owners : k < o => ostate[k] # "none"
FreshHandle(h) ==
    /\ h <= budget[2]
    /\ hstate[h] = "none"
    /\ \A k \in Handles : k < h => hstate[k] # "none"
Live(h) == hstate[h] = "live"
Alive(o) == ostate[o] = "alive"

\* The registry pointer a constructor stores: the member exists only under
\* the counted and tracked strategies.
RegPtr(o) == IF Counting THEN o ELSE NullReg

\* ------------------------------------------------------------- the handler

\* set_referable_after_free_handler(handler), hpp:56-60
set_referable_after_free_handler(hd) ==
    /\ Running
    /\ referable_after_free_handler_instance' = hd
    /\ UNCHANGED <<strategy, budget, build, proc, ub, ownerVars, listVars, handleVars, report, threadVars>>

\* get_referable_after_free_handler(), hpp:64-68
get_referable_after_free_handler == referable_after_free_handler_instance

\* ------------------------------------------------------------------ owners

\* Fault: a constructor of an owner whose count starts at 1.
ConstructOwnerCountingItself(o, k, v) ==
    /\ ostate' = [ostate EXCEPT ![o] = "alive"]
    /\ okind' = [okind EXCEPT ![o] = k]
    /\ owner_ref_count' = [owner_ref_count EXCEPT ![o] = 1]
    /\ boxed' = [boxed EXCEPT ![o] = v]
    /\ UNCHANGED <<sysVars, listVars, handleVars, report, threadVars>>

\* A constructor of an owner of kind k that holds v: ref_count 0, tracked:
\* ref_count(0, loc) with an unlinked head.
ConstructOwnerHolding(o, k, v) ==
    /\ ostate' = [ostate EXCEPT ![o] = "alive"]
    /\ okind' = [okind EXCEPT ![o] = k]
    /\ owner_ref_count' = [owner_ref_count EXCEPT ![o] = 0]
    /\ boxed' = [boxed EXCEPT ![o] = v]
    /\ next' = [next EXCEPT ![HeadOf(o)] = NullNode]
    /\ prev' = [prev EXCEPT ![HeadOf(o)] = NullNode]
    /\ mutex' = [mutex EXCEPT ![o] = 0]
    /\ UNCHANGED <<sysVars, handleVars, report, threadVars>>

\* A constructor given a value: every box of a run is made with a value of
\* its own, here the number of its slot.
ConstructOwner(o, k) == ConstructOwnerHolding(o, k, o)

\* referable::referable(const type&) / (type&&), hpp:181-214
ConstructReferable(o) ==
    /\ Running /\ FreshOwner(o)
    /\ ConstructOwner(o, "referable")

\* enable_ref_from_this::enable_ref_from_this(), hpp:433-439
ConstructEnableRefFromThis(o) ==
    /\ Running /\ FreshOwner(o)
    /\ ConstructOwner(o, "enable_ref_from_this")

\* Fault: a copy constructor of a box that also copies the source's count.
CopyConstructReferableWithCount(o, src) ==
    /\ Running /\ FreshOwner(o)
    /\ Alive(src) /\ okind[src] = "referable"
    /\ ostate' = [ostate EXCEPT ![o] = "alive"]
    /\ okind' = [okind EXCEPT ![o] = "referable"]
    /\ owner_ref_count' = [owner_ref_count EXCEPT ![o] = owner_ref_count[src]]
    /\ boxed' = [boxed EXCEPT ![o] = boxed[src]]
    /\ UNCHANGED <<sysVars, listVars, handleVars, report, threadVars>>

\* referable::referable(const referable<other_type>&), hpp:236-251: the
\* value is copied, the registry starts at 0.
CopyConstructReferable(o, src) ==
    /\ Running /\ FreshOwner(o)
    /\ Alive(src) /\ okind[src] = "referable"
    /\ ConstructOwnerHolding(o, "referable", boxed[src])

\* Fault: a move constructor of a box that takes the source's registrations:
\* the count moves to the new box and the source's handles are rebound.
MoveConstructReferableWithRegistrations(o, src) ==
    /\ Running /\ FreshOwner(o)
    /\ Alive(src) /\ okind[src] = "referable"
    /\ ostate' = [ostate EXCEPT ![o] = "alive"]
    /\ okind' = [okind EXCEPT ![o] = "referable"]
    /\ owner_ref_count' = [owner_ref_count EXCEPT ![o] = owner_ref_count[src], ![src] = 0]
    /\ boxed' = [boxed EXCEPT ![o] = boxed[src]]
    /\ ref_count' = [h \in Handles |-> IF ref_count[h] = src THEN o ELSE ref_count[h]]
    /\ UNCHANGED <<sysVars, listVars, hstate, value, report, threadVars>>

\* referable::referable(referable<other_type>&&), hpp:256-271: the value is
\* moved (a scalar: the source keeps it), the registry starts at 0.
MoveConstructReferable(o, src) ==
    /\ Running /\ FreshOwner(o)
    /\ Alive(src) /\ okind[src] = "referable"
    /\ ConstructOwnerHolding(o, "referable", boxed[src])

\* Fault: an assignment between boxes that also assigns the count.
AssignValueAndCount(dst, src) ==
    /\ boxed' = [boxed EXCEPT ![dst] = boxed[src]]
    /\ owner_ref_count' = [owner_ref_count EXCEPT ![dst] = owner_ref_count[src]]
    /\ UNCHANGED <<sysVars, ostate, okind, listVars, handleVars, report, threadVars>>

\* An assignment between boxes writes the value member and nothing else.
AssignValue(dst, src) ==
    /\ boxed' = [boxed EXCEPT ![dst] = boxed[src]]
    /\ UNCHANGED <<sysVars, ostate, okind, owner_ref_count, listVars, handleVars,
                   report, threadVars>>

\* referable::operator=(const referable<other_type>&), hpp:277-281
CopyAssignReferable(dst, src) ==
    /\ Running
    /\ Alive(dst) /\ okind[dst] = "referable"
    /\ Alive(src) /\ okind[src] = "referable"
    /\ AssignValue(dst, src)

\* referable::operator=(referable<other_type>&&), hpp:287-291
MoveAssignReferable(dst, src) ==
    /\ Running
    /\ Alive(dst) /\ okind[dst] = "referable"
    /\ Alive(src) /\ okind[src] = "referable"
    /\ AssignValue(dst, src)

\* enable_ref_from_this::enable_ref_from_this(const enable_ref_from_this&),
\* hpp:359-371: the registry of the new object starts at 0; the members of
\* the derived object are copied by the derived class.
CopyConstructEnableRefFromThis(o, src) ==
    /\ Running /\ FreshOwner(o)
    /\ Alive(src) /\ okind[src] = "enable_ref_from_this"
    /\ ConstructOwnerHolding(o, "enable_ref_from_this", boxed[src])

\* enable_ref_from_this::enable_ref_from_this(enable_ref_from_this&&),
\* hpp:375-387
MoveConstructEnableRefFromThis(o, src) ==
    /\ Running /\ FreshOwner(o)
    /\ Alive(src) /\ okind[src] = "enable_ref_from_this"
    /\ ConstructOwnerHolding(o, "enable_ref_from_this", boxed[src])

\* enable_ref_from_this::operator=(const enable_ref_from_this&), hpp:391-393:
\* the body is empty, so the function, which returns a reference, flows off
\* its end without a return statement: undefined behaviour.
CopyAssignEnableRefFromThis(dst, src) ==
    /\ Running
    /\ Alive(dst) /\ okind[dst] = "enable_ref_from_this"
    /\ Alive(src) /\ okind[src] = "enable_ref_from_this"
    /\ Stop("undefined", {"no_return"})

\* enable_ref_from_this::operator=(enable_ref_from_this&&), hpp:397-399: as
\* the copy assignment.
MoveAssignEnableRefFromThis(dst, src) ==
    /\ Running
    /\ Alive(dst) /\ okind[dst] = "enable_ref_from_this"
    /\ Alive(src) /\ okind[src] = "enable_ref_from_this"
    /\ Stop("undefined", {"no_return"})

\* The message the destructor passes to the handler: the counted strategy
\* passes the fixed text "Referable after free detected" (n = 0, no nodes),
\* the tracked strategy ref_count.get_referable_after_free_message().
DestructorMessage(o) ==
    IF strategy = "tracked" THEN get_referable_after_free_message(o)
    ELSE [n |-> 0, nodes |-> <<>>]

\* What the handler read from the slot does when called with msg during the
\* destruction of o: the default handler prints the message and calls
\* std::terminate() (hpp:42-46), so the destructor never returns; the "flag"
\* handler returns and the destructor completes.
CallHandler(o, hd, msg) ==
    /\ report' = [report EXCEPT ![o] = Append(@, [by |-> hd, msg |-> msg])]
    /\ IF hd = "default"
       THEN proc' = "terminated" /\ UNCHANGED ostate
       ELSE proc' = "running" /\ ostate' = [ostate EXCEPT ![o] = "destroyed"]
    /\ UNCHANGED <<strategy, budget, build, referable_after_free_handler_instance, ub,
                   okind, owner_ref_count, boxed, listVars, handleVars, threadVars>>

\* The destructor found no outstanding reference: the owner is released.
ReleaseOwner(o) ==
    /\ ostate' = [ostate EXCEPT ![o] = "destroyed"]
    /\ UNCHANGED <<sysVars, okind, owner_ref_count, boxed, listVars, handleVars, report, threadVars>>

\* referable::~referable(), hpp:218-231, and
\* enable_ref_from_this::~enable_ref_from_this(), hpp:403-416
DestroyOwner(o) ==
    /\ Running /\ Alive(o)
    /\ IF Counting /\ get_ref(o) # 0
       THEN LET msg == DestructorMessage(o) IN
            IF WalkLoops(msg) THEN Stop("hung", {"cyclic_list"})
            ELSE IF WalkKinds(msg) # {} THEN Stop("undefined", WalkKinds(msg))
            ELSE CallHandler(o, get_referable_after_free_handler, msg)
       ELSE ReleaseOwner(o)

\* ----------------------------------------------------------------- handles

\* An operation on handles ends with memory M and, when it ran to its end,
\* with the handle fields hs, rc, v.
Finish(M, hs, rc, v) ==
    IF M.proc = "running"
    THEN /\ Commit(M)
         /\ hstate' = hs /\ ref_count' = rc /\ value' = v
         /\ UNCHANGED <<strategy, budget, build, referable_after_free_handler_instance,
                        ostate, okind, boxed, report, threadVars>>
    ELSE Stop(M.proc, M.ub)

\* A constructor of handle h that stores registry pointer reg and target v
\* and then, when `registers`, calls add_ref() if reg is not null.
ConstructHandle(h, reg, v, registers) ==
    Finish(IF registers THEN add_ref_if_bound(Memory, reg, h) ELSE Memory,
           [hstate EXCEPT ![h] = "live"],
           [ref_count EXCEPT ![h] = reg],
           [value EXCEPT ![h] = v])

\* ref_ptr::ref_ptr(), hpp:479-493
DefaultConstruct(h) ==
    /\ Running /\ FreshHandle(h)
    /\ ConstructHandle(h, NullReg, NullValue, FALSE)

\* ref_ptr::ref_ptr(referable<ref_type>&) and (const referable&), hpp:498-537
ConstructFromReferable(h, o) ==
    /\ Running /\ FreshHandle(h)
    /\ Alive(o) /\ okind[o] = "referable"
    /\ ConstructHandle(h, RegPtr(o), AddrOf(o, 0), TRUE)

\* Fault: a member constructor that stores the registry pointer but never
\* calls add_ref().
ConstructMemberUnregistered(h, o, f) ==
    /\ Running /\ FreshHandle(h)
    /\ Alive(o) /\ okind[o] = "referable"
    /\ ConstructHandle(h, RegPtr(o), AddrOf(o, f), FALSE)

\* ref_ptr::ref_ptr(referable<ref_type>&, value_type ref_type::*), hpp:543-583
ConstructFromReferableMember(h, o, f) ==
    /\ Running /\ FreshHandle(h)
    /\ Alive(o) /\ okind[o] = "referable"
    /\ ConstructHandle(h, RegPtr(o), AddrOf(o, f), TRUE)

\* Fault: a constructor from enable_ref_from_this that stores the registry
\* pointer but never calls add_ref().
ConstructFromEnableRefFromThisUnregistered(h, o) ==
    /\ Running /\ FreshHandle(h)
    /\ Alive(o) /\ okind[o] = "enable_ref_from_this"
    /\ ConstructHandle(h, RegPtr(o), AddrOf(o, 0), FALSE)

\* ref_ptr::ref_ptr(enable_ref_from_this<ref_type>&) and (const ...&),
\* hpp:593-634; also what ref_from_this() returns, hpp:420-430
ConstructFromEnableRefFromThis(h, o) ==
    /\ Running /\ FreshHandle(h)
    /\ Alive(o) /\ okind[o] = "enable_ref_from_this"
    /\ ConstructHandle(h, RegPtr(o), AddrOf(o, 0), TRUE)

\* ref_ptr::ref_ptr(const ref_ptr<other_type>&), hpp:692-714
CopyConstruct(h, src) ==
    /\ Running /\ FreshHandle(h) /\ Live(src)
    /\ ConstructHandle(h, ref_count[src], value[src], TRUE)

\* ref_ptr::ref_ptr(const ref_ptr<other_type>&, value_type other_type::*),
\* hpp:721-743
CopyConstructMember(h, src, f) ==
    /\ Running /\ FreshHandle(h) /\ Live(src)
    /\ value[src][2] = 0
    /\ ConstructHandle(h, ref_count[src], Project(value[src], f), TRUE)

\* Fault: a move constructor that takes the members and leaves the source
\* as it was.
MovedFromKeepsSource(h, reg, v, src) ==
    Finish(Memory,
           [hstate EXCEPT ![h] = "live"],
           [ref_count EXCEPT ![h] = reg],
           [value EXCEPT ![h] = v])

\* A move constructor of handle h: the members are taken from src, no
\* add_ref() is called, then other.ref_count = nullptr; other.value = nullptr.
MovedFrom(h, reg, v, src) ==
    Finish(Memory,
           [hstate EXCEPT ![h] = "live"],
           [ref_count EXCEPT ![h] = reg, ![src] = NullReg],
           [value EXCEPT ![h] = v, ![src] = NullValue])

\* ref_ptr::ref_ptr(ref_ptr<other_type>&&), hpp:748-768
MoveConstruct(h, src) ==
    /\ Running /\ FreshHandle(h) /\ Live(src)
    /\ MovedFrom(h, ref_count[src], value[src], src)

\* ref_ptr::ref_ptr(ref_ptr<other_type>&&, value_type other_type::*),
\* hpp:775-795
MoveConstructMember(h, src, f) ==
    /\ Running /\ FreshHandle(h) /\ Live(src)
    /\ value[src][2] = 0
    /\ MovedFrom(h, ref_count[src], Project(value[src], f), src)

\* The calls of the copy assignment: this->remove_ref() if this is bound,
\* then, with this->ref_count = other.ref_count, add_ref() if it is not null.
CopyAssignCalls(a, b) ==
    add_ref_if_bound(remove_ref_if_bound(Memory, ref_count[a], a), ref_count[b], a)

\* ref_ptr::operator=(const ref_ptr&) and the other_type template,
\* hpp:800-852
CopyAssign(a, b) ==
    /\ Running /\ Live(a) /\ Live(b)
    /\ IF a = b
       THEN UNCHANGED vars
       ELSE Finish(CopyAssignCalls(a, b), hstate,
                   [ref_count EXCEPT ![a] = ref_count[b]],
                   [value EXCEPT ![a] = value[b]])

\* The calls of the move assignment: this->remove_ref() if bound; then, in
\* the tracked build only, other.remove_ref() if other is bound and
\* this->add_ref() if this->ref_count (now other's) is not null.
MoveAssignCalls(a, b) ==
    LET M1 == remove_ref_if_bound(Memory, ref_count[a], a) IN
    IF strategy = "tracked"
    THEN add_ref_if_bound(remove_ref_if_bound(M1, ref_count[b], b), ref_count[b], a)
    ELSE M1

\* ref_ptr::operator=(ref_ptr&&) and the other_type template, hpp:857-921.
\* There is no test for self-assignment: with a = b every store below hits
\* the same object.
MoveAssign(a, b) ==
    /\ Running /\ Live(a) /\ Live(b)
    /\ Finish(MoveAssignCalls(a, b), hstate,
              [ref_count EXCEPT ![a] = ref_count[b], ![b] = NullReg],
              [value EXCEPT ![a] = value[b], ![b] = NullValue])

\* ref_ptr::~ref_ptr(), hpp:924-932.  The members of the destroyed handle
\* are not read again and are written as null; its list node keeps what
\* remove_ref left in it.
DestroyHandle(h) ==
    /\ Running /\ Live(h)
    /\ Finish(remove_ref_if_bound(Memory, ref_count[h], h),
              [hstate EXCEPT ![h] = "destroyed"],
              [ref_count EXCEPT ![h] = NullReg],
              [value EXCEPT ![h] = NullValue])

\* ref_ptr::reset(), hpp:935-945
reset(h) ==
    /\ Running /\ Live(h)
    /\ Finish(remove_ref_if_bound(Memory, ref_count[h], h), hstate,
              [ref_count EXCEPT ![h] = NullReg],
              [value EXCEPT ![h] = NullValue])

\* ref_ptr::operator bool(), hpp:948-951
AsBool(h) == value[h] # NullValue

\* ------------------------------------------------------------ specification

Next ==
    \/ \E hd \in Handlers : set_referable_after_free_handler(hd)
    \/ \E o \in Owners : ConstructReferable(o)
    \/ \E o \in Owners : ConstructEnableRefFromThis(o)
    \/ \E o \in Owners : DestroyOwner(o)
    \/ \E h \in Handles : DefaultConstruct(h)
    \/ \E h \in Handles, o \in Owners : ConstructFromReferable(h, o)
    \/ \E h \in Handles, o \in Owners, f \in Fields : ConstructFromReferableMember(h, o, f)
    \/ \E h \in Handles, o \in Owners : ConstructFromEnableRefFromThis(h, o)
    \/ \E h \in Handles, src \in Handles : CopyConstruct(h, src)
    \/ \E h \in Handles, src \in Handles, f \in Fields : CopyConstructMember(h, src, f)
    \/ \E h \in Handles, src \in Handles : MoveConstruct(h, src)
    \/ \E h \in Handles, src \in Handles, f \in Fields : MoveConstructMember(h, src, f)
    \/ \E a \in Handles, b \in Handles : CopyAssign(a, b)
    \/ \E a \in Handles, b \in Handles : MoveAssign(a, b)
    \/ \E h \in Handles : DestroyHandle(h)
    \/ \E h \in Handles : reset(h)

Spec == Init /\ [][Next]_vars

TypeOK ==
    /\ strategy \in Strategies
    /\ budget \in Budgets(strategy)
    /\ build \in Builds
    /\ strategy = selected_strategy(build.defined)
    /\ referable_after_free_handler_instance \in Handlers
    /\ proc \in {"running", "terminated", "hung", "undefined"}
    /\ (ub # {}) <=> (proc \in {"undefined", "hung"})
    /\ \A o \in Owners : owner_ref_count[o] \in 0..(SizeMod - 1)
    /\ \A r \in NodeRefs : next[r] \in NodeRefs \cup {NullNode}
    /\ \A r \in NodeRefs : prev[r] \in NodeRefs \cup {NullNode}
    /\ \A o \in Owners : mutex[o] \in Threads \cup {0}
    /\ \A h \in Handles : ref_count[h] \in Owners \cup {NullReg}
    /\ referable_after_free_handler_mutex \in Threads \cup {0}
    /\ \A o \in Owners : boxed[o] \in Owners \cup {0}
    /\ ub \subseteq UBKinds
    /\ \A t \in Threads : threads[t].deregs <= threads[t].regs
    /\ \A t \in Threads : threads[t].regs \in 0..MaxRegs

\* The run of the documentation tests: owners are boxed values, every handle
\* is constructed on its own from a referable, handles and owners are
\* destroyed in any order, and the handler slot is never set.
NextIndependent ==
    \/ \E o \in Owners : ConstructReferable(o)
    \/ \E h \in Handles, o \in Owners : ConstructFromReferable(h, o)
    \/ \E h \in Handles : DestroyHandle(h)
    \/ \E o \in Owners : DestroyOwner(o)

SpecIndependent == Init /\ [][NextIndependent]_vars

\* ------------------------------------------------------------------ claims

\* Handle h is alive and its ref_count member points to the registry of o.
Registered(h, o) == Live(h) /\ ref_count[h] = o
Registrations(o) == {h \in Handles : Registered(h, o)}
\* The registries other than o keep their counts in this step.
OthersKeep(o) == \A k \in Owners \ {o} : owner_ref_count'[k] = owner_ref_count[k]

\* C1: under the counted and tracked strategies, the destructor of an owner
\* whose count is N > 0 calls the handler that is in the slot exactly once:
\* the step adds exactly one call, made by that handler, to the calls of
\* this owner's destructor.
C1_HandlerOnce ==
    [][\A o \in Owners :
        (DestroyOwner(o) /\ Counting /\ get_ref(o) > 0)
        => /\ Len(report'[o]) = Len(report[o]) + 1
           /\ report'[o][Len(report'[o])].by = referable_after_free_handler_instance]_vars

\* C2: under the counted and tracked strategies, with the default handler in
\* the slot, the destructor of an owner that a live handle is registered
\* with never releases the owner: the default handler stops the process
\* while the owner is still alive.
C2_DefaultHandlerStops ==
    [][\A o \in Owners :
        (DestroyOwner(o) /\ Counting /\ Registrations(o) # {}
            /\ referable_after_free_handler_instance = "default")
        => /\ proc' = "terminated"
           /\ ostate'[o] = "alive"
           /\ Len(report'[o]) = 1]_vars

\* C3: the destructor of an owner whose count is 0, or that no live handle
\* is registered with, calls no handler and releases the owner, whatever
\* handle operations came before.
C3_NoHandlerAtZero ==
    [][\A o \in Owners :
        (DestroyOwner(o) /\ Counting /\ (get_ref(o) = 0 \/ Registrations(o) = {}))
        => /\ report' = report
           /\ proc' = "running"
           /\ ostate'[o] = "destroyed"]_vars

\* C3's case: an owner with count 0 after a handle was destroyed and while
\* another, emptied, handle is alive, whose destructor runs without a call.
C3_Witness ==
    \E o \in Owners :
        /\ Counting /\ Alive(o) /\ get_ref(o) = 0
        /\ \E h \in Handles : hstate[h] = "destroyed"
        /\ \E h \in Handles : Live(h) /\ ~AsBool(h)
        /\ ENABLED (DestroyOwner(o) /\ report' = report /\ ostate'[o] = "destroyed")

\* C4: with handles constructed independently from referables and destroyed
\* in any order, the count of a registry is the number of live handles made
\* from it: each construction raises it by exactly 1, each destruction
\* lowers it by exactly 1 from a value above 0, and both run to their end.
C4_CountFollowsHandles ==
    [][\A o \in Owners :
        /\ \A h \in Handles :
            (ConstructFromReferable(h, o) /\ Counting)
            => /\ proc' = "running"
               /\ owner_ref_count'[o] = owner_ref_count[o] + 1
               /\ owner_ref_count'[o] = Cardinality(Registrations(o)')
        /\ \A h \in Handles :
            (DestroyHandle(h) /\ Counting /\ Registered(h, o) /\ Alive(o))
            => /\ proc' = "running"
               /\ owner_ref_count[o] > 0
               /\ owner_ref_count'[o] = owner_ref_count[o] - 1
               /\ owner_ref_count'[o] = Cardinality(Registrations(o)')]_vars

\* The nodes a message names, as a set.
NodesOf(msg) == {msg.nodes[i] : i \in 1..Len(msg.nodes)}

\* C5: under the tracked strategy, the list that
\* get_referable_after_free_message walks for a live owner holds exactly the
\* nodes of the handles registered with it, each once, after registrations
\* and deregistrations in any order.
C5_ListIsRegistrations ==
    \A o \in Owners :
        (strategy = "tracked" /\ Alive(o))
        => LET msg == get_referable_after_free_message(o) IN
           /\ NodesOf(msg) = {NodeOf(h) : h \in Registrations(o)}
           /\ Len(msg.nodes) = Cardinality(Registrations(o))

\* C6: the copy constructor, given a non-empty source, leaves the source's
\* target and registry pointer as they were and gives the new handle the
\* same target and registry; under the counted and tracked strategies, with
\* the source's registry alive, it raises that registry's count by exactly
\* 1 and changes no other count.
C6_CopyConstruct ==
    [][\A h \in Handles, src \in Handles :
        (CopyConstruct(h, src) /\ AsBool(src)
            /\ (ref_count[src] # NullReg => Alive(ref_count[src])))
        => /\ proc' = "running"
           /\ value'[src] = value[src] /\ ref_count'[src] = ref_count[src]
           /\ value'[h] = value[src] /\ ref_count'[h] = ref_count[src]
           /\ \A o \in Owners :
                owner_ref_count'[o] =
                    IF Counting /\ ref_count[src] = o
                    THEN owner_ref_count[o] + 1 ELSE owner_ref_count[o]]_vars

\* C6's case: a handle registered with a live registry whose copy
\* constructor raises that registry's count from 1 to 2.
C6_Witness ==
    \E h \in Handles, src \in Handles, o \in Owners :
        /\ Counting /\ Registered(src, o) /\ Alive(o) /\ AsBool(src)
        /\ owner_ref_count[o] = 1
        /\ ENABLED (CopyConstruct(h, src) /\ owner_ref_count'[o] = 2
                    /\ ref_count'[h] = o /\ value'[h] = value[src])

\* C7: the move constructor, given a non-empty source, changes no count,
\* empties the source (operator bool false, registry pointer null) and
\* gives the new handle the source's former target and registry.
C7_MoveConstruct ==
    [][\A h \in Handles, src \in Handles :
        (MoveConstruct(h, src) /\ AsBool(src))
        => /\ proc' = "running"
           /\ owner_ref_count' = owner_ref_count
           /\ value'[src] = NullValue /\ ref_count'[src] = NullReg
           /\ value'[h] = value[src] /\ value'[h] # NullValue
           /\ ref_count'[h] = ref_count[src]]_vars

\* C7's case: a handle registered with a registry of count 1 whose move
\* constructor leaves the count at 1 and the new handle registered.
C7_Witness ==
    \E h \in Handles, src \in Handles, o \in Owners :
        /\ Counting /\ Registered(src, o) /\ AsBool(src)
        /\ owner_ref_count[o] = 1
        /\ ENABLED (MoveConstruct(h, src) /\ owner_ref_count'[o] = 1
                    /\ ref_count'[h] = o /\ ref_count'[src] = NullReg)

\* C8: under the counted and tracked strategies, a handle projected to a
\* member, from a referable or from a handle registered with a live
\* registry, registers with the registry of the whole boxed value: that
\* count rises by exactly 1, no other count changes, and the new handle's
\* registry pointer is that registry while its target is the member.
C8_ProjectionSameRegistry ==
    [][\A h \in Handles, f \in Fields :
        /\ \A o \in Owners :
            (ConstructFromReferableMember(h, o, f) /\ Counting)
            => /\ proc' = "running"
               /\ owner_ref_count'[o] = owner_ref_count[o] + 1
               /\ OthersKeep(o)
               /\ ref_count'[h] = o /\ value'[h] = AddrOf(o, f)
        /\ \A src \in Handles, o \in Owners :
            (CopyConstructMember(h, src, f) /\ Counting
                /\ Registered(src, o) /\ Alive(o))
            => /\ proc' = "running"
               /\ owner_ref_count'[o] = owner_ref_count[o] + 1
               /\ OthersKeep(o)
               /\ ref_count'[h] = o /\ value'[h] = AddrOf(o, f)]_vars

\* C8's case: one handle to the whole value and one projected from the
\* referable are alive (count 2), and a third, projected from the first
\* handle to a further member, raises the same count to 3.
C8_Witness ==
    \E o \in Owners :
        /\ Counting /\ Alive(o) /\ owner_ref_count[o] = 2
        /\ Registered(1, o) /\ value[1] = AddrOf(o, 0)
        /\ Registered(2, o) /\ value[2] = AddrOf(o, 1)
        /\ ENABLED (CopyConstructMember(3, 1, 1) /\ owner_ref_count'[o] = 3
                    /\ ref_count'[3] = o)

\* What copy assignment a = b does to the count of registry o, both handles
\* given their registries before the assignment.
AfterCopyAssign(o, a, b) ==
    owner_ref_count[o]
        - (IF ref_count[a] = o THEN 1 ELSE 0)
        + (IF ref_count[b] = o THEN 1 ELSE 0)

\* C9: under the counted and tracked strategies, copy assignment a = b
\* between distinct handles whose registries are alive deregisters a from
\* its registry, makes a adopt b's target and registry, and registers a
\* there: the old count drops by 1, b's rises by 1, a registry both were
\* registered with keeps its count, and b is left as it was.
C9_CopyAssign ==
    [][\A a \in Handles, b \in Handles :
        (CopyAssign(a, b) /\ a # b /\ Counting
            /\ (ref_count[a] # NullReg => Alive(ref_count[a]))
            /\ (ref_count[b] # NullReg => Alive(ref_count[b])))
        => /\ proc' = "running"
           /\ \A o \in Owners : owner_ref_count'[o] = AfterCopyAssign(o, a, b)
           /\ ref_count'[a] = ref_count[b] /\ value'[a] = value[b]
           /\ ref_count'[b] = ref_count[b] /\ value'[b] = value[b]]_vars

\* C10: under the counted and tracked strategies, move assignment
\* a = std::move(b) between distinct handles whose registries are alive
\* deregisters a from its previous registry, leaves a with b's former
\* target and registry and b empty, and leaves the count of b's former
\* registry equal to its value before the assignment.
C10_MoveAssign ==
    [][\A a \in Handles, b \in Handles :
        (MoveAssign(a, b) /\ a # b /\ Counting /\ ref_count[b] # NullReg
            /\ (ref_count[a] # NullReg => Alive(ref_count[a]))
            /\ Alive(ref_count[b]))
        => /\ proc' = "running"
           /\ ref_count'[a] = ref_count[b] /\ value'[a] = value[b]
           /\ ref_count'[b] = NullReg /\ value'[b] = NullValue
           /\ owner_ref_count'[ref_count[b]] = owner_ref_count[ref_count[b]]
           /\ \A o \in Owners \ {ref_count[b]} :
                owner_ref_count'[o] =
                    owner_ref_count[o] - (IF ref_count[a] = o THEN 1 ELSE 0)]_vars

\* C11: self-assignment of a handle, by copy assignment (h = h) or by move
\* assignment (h = std::move(h)), is a no-op: the handle's target and
\* registry pointer, every count and every list are after the assignment
\* what they were before it.
C11_SelfAssignNoOp ==
    [][\A h \in Handles :
        (CopyAssign(h, h) \/ MoveAssign(h, h)) => UNCHANGED vars]_vars

\* C12: under the counted and tracked strategies, outside an operation, the
\* registry pointer of a live handle is non-null if and only if its target
\* is non-null (operator bool is true), whatever constructor, assignment,
\* move or reset produced the handle.
C12_RegistryIffTarget ==
    \A h \in Handles :
        (Counting /\ Running /\ Live(h)) => ((ref_count[h] # NullReg) <=> AsBool(h))

\* C13: under the counted and tracked strategies, reset() on a handle whose
\* registry, if it has one, is alive leaves the handle empty (target and
\* registry pointer null), lowers the count of the registry it was
\* registered with by exactly 1 and changes no other count; on an empty
\* handle it changes nothing, so a second reset() has no further effect.
C13_Reset ==
    [][\A h \in Handles :
        (reset(h) /\ Counting /\ (ref_count[h] # NullReg => Alive(ref_count[h])))
        => /\ proc' = "running"
           /\ value'[h] = NullValue /\ ref_count'[h] = NullReg
           /\ \A o \in Owners :
                owner_ref_count'[o] =
                    owner_ref_count[o] - (IF ref_count[h] = o THEN 1 ELSE 0)
           /\ (~AsBool(h) /\ ref_count[h] = NullReg) => UNCHANGED vars]_vars

\* The run of the box tests: boxes are constructed, copied, moved, assigned
\* and destroyed while handles are made from them and destroyed.
NextBoxes ==
    \/ \E o \in Owners : ConstructReferable(o)
    \/ \E o \in Owners, src \in Owners : CopyConstructReferable(o, src)
    \/ \E o \in Owners, src \in Owners : MoveConstructReferable(o, src)
    \/ \E dst \in Owners, src \in Owners : CopyAssignReferable(dst, src)
    \/ \E dst \in Owners, src \in Owners : MoveAssignReferable(dst, src)
    \/ \E h \in Handles, o \in Owners : ConstructFromReferable(h, o)
    \/ \E h \in Handles : DestroyHandle(h)
    \/ \E o \in Owners : DestroyOwner(o)

SpecBoxes == Init /\ [][NextBoxes]_vars

\* C14: copy-constructing a box from a box gives the new box the source's
\* value and a count of 0 and leaves the source's count, and every handle,
\* as they were; under the counted and tracked strategies a handle built
\* afterwards on either box raises that box's count by 1 and no other.
C14_CopyBoxFreshRegistry ==
    [][/\ \A o \in Owners, src \in Owners :
            CopyConstructReferable(o, src)
            => /\ owner_ref_count'[o] = 0
               /\ boxed'[o] = boxed[src]
               /\ OthersKeep(o)
               /\ UNCHANGED handleVars
               /\ get_referable_after_free_message(src)'
                    = get_referable_after_free_message(src)
       /\ \A h \in Handles, o \in Owners :
            (ConstructFromReferable(h, o) /\ Counting)
            => /\ owner_ref_count'[o] = owner_ref_count[o] + 1
               /\ OthersKeep(o)
               /\ ref_count'[h] = o]_vars

\* C14's case: a box with one registered handle (count 1) whose copy starts
\* at count 0, the source staying at 1.
C14_Witness ==
    \E o \in Owners, src \in Owners :
        /\ Counting /\ Alive(src) /\ owner_ref_count[src] = 1
        /\ \E h \in Handles : Registered(h, src)
        /\ ENABLED (CopyConstructReferable(o, src) /\ owner_ref_count'[o] = 0
                    /\ owner_ref_count'[src] = 1 /\ boxed'[o] = boxed[src])

\* C15: copy- or move-assigning one box to another writes the destination's
\* value and nothing else: the counts and lists of both boxes, and the
\* target and registry pointer of every handle, are unchanged.
C15_AssignBoxKeepsRegistries ==
    [][\A dst \in Owners, src \in Owners :
        (CopyAssignReferable(dst, src) \/ MoveAssignReferable(dst, src))
        => /\ boxed'[dst] = boxed[src]
           /\ \A o \in Owners \ {dst} : boxed'[o] = boxed[o]
           /\ owner_ref_count' = owner_ref_count
           /\ UNCHANGED <<ostate, handleVars, listVars>>]_vars

\* C15's case: two boxes holding different values, each with a registered
\* handle, one assigned to the other: the destination's value changes.
C15_Witness ==
    \E dst \in Owners, src \in Owners :
        /\ Counting /\ Alive(dst) /\ Alive(src) /\ boxed[dst] # boxed[src]
        /\ owner_ref_count[dst] = 1 /\ owner_ref_count[src] = 1
        /\ \E h \in Handles : Registered(h, dst)
        /\ \E h \in Handles : Registered(h, src)
        /\ ENABLED (CopyAssignReferable(dst, src) /\ boxed'[dst] # boxed[dst]
                    /\ owner_ref_count' = owner_ref_count)

\* The run of the enable_ref_from_this tests: objects derived from
\* enable_ref_from_this are constructed, copied, moved, assigned and
\* destroyed while handles are made with ref_from_this() and destroyed.
NextSelfReferencing ==
    \/ \E o \in Owners : ConstructEnableRefFromThis(o)
    \/ \E o \in Owners, src \in Owners : CopyConstructEnableRefFromThis(o, src)
    \/ \E o \in Owners, src \in Owners : MoveConstructEnableRefFromThis(o, src)
    \/ \E dst \in Owners, src \in Owners : CopyAssignEnableRefFromThis(dst, src)
    \/ \E dst \in Owners, src \in Owners : MoveAssignEnableRefFromThis(dst, src)
    \/ \E h \in Handles, o \in Owners : ConstructFromEnableRefFromThis(h, o)
    \/ \E h \in Handles : DestroyHandle(h)
    \/ \E o \in Owners : DestroyOwner(o)

SpecSelfReferencing == Init /\ [][NextSelfReferencing]_vars

\* C16: under the counted and tracked strategies, copy construction, move
\* construction, copy assignment and move assignment of an object derived
\* from enable_ref_from_this each run to their end and leave the
\* destination's registry at count 0, also when handles were registered
\* with the destination before an assignment.
C16_SelfReferencingCopyResets ==
    [][\A o \in Owners, src \in Owners :
        ((\/ CopyConstructEnableRefFromThis(o, src)
          \/ MoveConstructEnableRefFromThis(o, src)
          \/ CopyAssignEnableRefFromThis(o, src)
          \/ MoveAssignEnableRefFromThis(o, src)) /\ Counting)
        => /\ proc' = "running"
           /\ owner_ref_count'[o] = 0]_vars

\* Handle h holds the only registration of o: the count is 1 and, under the
\* tracked strategy, the list is the head followed by h's node alone.
SoleRegistration(h, o) ==
    /\ Registered(h, o)
    /\ owner_ref_count[o] = 1
    /\ strategy = "tracked"
        => /\ next[HeadOf(o)] = NodeOf(h)
           /\ next[NodeOf(h)] = NullNode
           /\ prev[NodeOf(h)] = HeadOf(o)

\* C17: under the counted and tracked strategies, ref_from_this() on an
\* object s whose count is 0 returns a handle that targets s and holds the
\* only registration of s (count 1); destroying that handle returns the
\* count to 0; and the destructor of s at count 0 calls no handler.
C17_RefFromThis ==
    [][\A h \in Handles, o \in Owners :
        /\ (ConstructFromEnableRefFromThis(h, o) /\ Counting /\ get_ref(o) = 0)
            => /\ proc' = "running"
               /\ value'[h] = AddrOf(o, 0)
               /\ SoleRegistration(h, o)'
               /\ OthersKeep(o)
        /\ (DestroyHandle(h) /\ Counting /\ Alive(o)
                /\ okind[o] = "enable_ref_from_this" /\ SoleRegistration(h, o))
            => /\ proc' = "running"
               /\ owner_ref_count'[o] = 0
        /\ (DestroyOwner(o) /\ Counting
                /\ okind[o] = "enable_ref_from_this" /\ get_ref(o) = 0)
            => /\ report' = report
               /\ ostate'[o] = "destroyed"]_vars

\* C17's case: the only handle ever made, by ref_from_this() on s, has been
\* destroyed, s is back at count 0 and its destructor runs without a call.
C17_Witness ==
    \E o \in Owners :
        /\ Counting /\ Alive(o) /\ okind[o] = "enable_ref_from_this"
        /\ \A k \in Owners \ {o} : ostate[k] = "none"
        /\ hstate[1] = "destroyed"
        /\ \A h \in Handles \ {1} : hstate[h] = "none"
        /\ get_ref(o) = 0
        /\ ENABLED (DestroyOwner(o) /\ report' = report /\ ostate'[o] = "destroyed")

\* C18: under the uncounted strategy every count is 0 at all times, no
\* handle holds a registry pointer, and no destructor of an owner has called
\* the handler, however many handles to the owner are alive.
C18_UncountedNeverReports ==
    strategy = "uncounted"
    => /\ proc # "terminated"
       /\ \A o \in Owners : owner_ref_count[o] = 0 /\ report[o] = <<>>
       /\ \A h \in Handles : ref_count[h] = NullReg

\* C18's case: under the uncounted strategy an owner has been destroyed
\* while two non-empty handles to it are alive, and no handler was called.
C18_Witness ==
    \E o \in Owners :
        /\ strategy = "uncounted" /\ proc = "running"
        /\ ostate[o] = "destroyed" /\ report[o] = <<>>
        /\ Cardinality({h \in Handles : Live(h) /\ AsBool(h) /\ value[h][1] = o}) >= 2

\* --------------------------------------------- several threads, one registry

\* The boxed value whose registry the threads share.
SharedOwner == 1

\* What a thread's call leaves of the other variables: the handles of a
\* thread are its own objects, the registry's counter is all they share.
ThreadFrame ==
    UNCHANGED <<sysVars, ostate, okind, boxed, listVars, handleVars, report,
                referable_after_free_handler_mutex>>

\* Fault: the counter as a plain size_t, ++ and -- being a load followed by
\* a store of the loaded value plus d, with other threads running between.
plain_rmw(t, o, d) ==
    /\ IF threads[t].pc = "idle"
       THEN /\ threads' = [threads EXCEPT ![t].pc = <<"loaded", d>>,
                                          ![t].tmp = owner_ref_count[o]]
            /\ UNCHANGED owner_ref_count
       ELSE /\ threads[t].pc = <<"loaded", d>>
            /\ owner_ref_count' = [owner_ref_count EXCEPT ![o] = Wrap(threads[t].tmp + d)]
            /\ threads' = [threads EXCEPT ![t].pc = "idle",
                                          ![t].regs = @ + (IF d = 1 THEN 1 ELSE 0),
                                          ![t].deregs = @ + (IF d = 1 THEN 0 ELSE 1)]
    /\ ThreadFrame

\* ++(*ref_count) (d = 1) and --(*ref_count) (d = -1) on the
\* std::atomic_size_t of owner o, called by thread t: one indivisible
\* read-modify-write, hpp:999 and hpp:1008.
atomic_rmw(t, o, d) ==
    /\ threads[t].pc = "idle"
    /\ owner_ref_count' =
            (IF d = 1 THEN atomic_increment(Memory, o) ELSE atomic_decrement(Memory, o)).cnt
    /\ threads' = [threads EXCEPT ![t].regs = @ + (IF d = 1 THEN 1 ELSE 0),
                                  ![t].deregs = @ + (IF d = 1 THEN 0 ELSE 1)]
    /\ ThreadFrame

\* Thread t constructs a handle of its own from the shared box:
\* ref_ptr::ref_ptr(referable<ref_type>&), hpp:498-515, whose add_ref() is
\* the only access to shared storage.
ThreadAddRef(t) ==
    /\ Running /\ strategy = "counted" /\ Alive(SharedOwner)
    /\ threads[t].regs < MaxRegs
    /\ atomic_rmw(t, SharedOwner, 1)

\* Thread t destroys one of its handles: ref_ptr::~ref_ptr, hpp:924-932.
ThreadRemoveRef(t) ==
    /\ Running /\ strategy = "counted" /\ Alive(SharedOwner)
    /\ threads[t].deregs < threads[t].regs
    /\ atomic_rmw(t, SharedOwner, -1)

InitConcurrent == Init /\ strategy = "counted"

NextConcurrent ==
    \/ \E o \in Owners : ConstructReferable(o)
    \/ \E t \in Threads : ThreadAddRef(t)
    \/ \E t \in Threads : ThreadRemoveRef(t)
    \/ \E o \in Owners : DestroyOwner(o)

SpecConcurrent == InitConcurrent /\ [][NextConcurrent]_vars

RECURSIVE SumOver(_, _)
\* The sum of field f of the threads in T.
SumOver(T, f) ==
    IF T = {} THEN 0
    ELSE LET t == CHOOSE x \in T : TRUE IN threads[t][f] + SumOver(T \ {t}, f)

\* C19: under the counted strategy, with several threads registering with
\* and deregistering from one registry in any interleaving, whenever no
\* thread is inside a call the count equals the number of completed
\* registrations minus the number of completed deregistrations.
C19_NoLostUpdate ==
    (strategy = "counted" /\ \A t \in Threads : threads[t].pc = "idle")
    => owner_ref_count[SharedOwner]
        = SumOver(Threads, "regs") - SumOver(Threads, "deregs")

\* C19's case: two threads have each registered twice and deregistered once
\* against the same registry.
C19_Witness ==
    /\ strategy = "counted" /\ Alive(SharedOwner)
    /\ \E t \in Threads, u \in Threads :
        /\ t # u
        /\ threads[t].regs = 2 /\ threads[t].deregs = 1
        /\ threads[u].regs = 2 /\ threads[u].deregs = 1
    /\ owner_ref_count[SharedOwner] = 2

\* ------------------------------------------ several threads, the handler slot

\* What a call of set_/get_referable_after_free_handler leaves alone.
HandlerFrame ==
    UNCHANGED <<strategy, budget, build, proc, ub, ownerVars, listVars, handleVars, report>>

\* Fault: a lock that is granted whoever holds the mutex.
lock_granted_always(t) == referable_after_free_handler_mutex' = t

\* std::scoped_lock{detail::referable_after_free_handler_mutex} taken by
\* thread t, hpp:58 and hpp:66: granted only while no thread holds it.
scoped_lock(t) ==
    /\ referable_after_free_handler_mutex = 0
    /\ referable_after_free_handler_mutex' = t

\* The end of the scope of `lock`: the mutex is released.
scoped_unlock(t) == referable_after_free_handler_mutex' = 0

\* Some thread is inside the assignment to the std::function object.
Writing == \E u \in Threads : threads[u].pc = "set_writing"

\* Thread t calls set_referable_after_free_handler(hd) and takes the lock,
\* hpp:56-58.
ThreadSetLock(t, hd) ==
    /\ Running
    /\ threads[t].pc = "idle"
    /\ scoped_lock(t)
    /\ threads' = [threads EXCEPT ![t].pc = "set_locked", ![t].arg = hd]
    /\ UNCHANGED referable_after_free_handler_instance
    /\ HandlerFrame

\* hpp:59, the assignment to the std::function object begins ...
ThreadSetBegin(t) ==
    /\ threads[t].pc = "set_locked"
    /\ threads' = [threads EXCEPT ![t].pc = "set_writing"]
    /\ UNCHANGED <<referable_after_free_handler_instance, referable_after_free_handler_mutex>>
    /\ HandlerFrame

\* ... and ends: the slot holds the handler that was passed.
ThreadSetStore(t) ==
    /\ threads[t].pc = "set_writing"
    /\ referable_after_free_handler_instance' = threads[t].arg
    /\ threads' = [threads EXCEPT ![t].pc = "set_stored"]
    /\ UNCHANGED referable_after_free_handler_mutex
    /\ HandlerFrame

\* hpp:60, set_referable_after_free_handler returns and releases the lock.
ThreadSetReturn(t) ==
    /\ threads[t].pc = "set_stored"
    /\ scoped_unlock(t)
    /\ threads' = [threads EXCEPT ![t].pc = "idle"]
    /\ UNCHANGED referable_after_free_handler_instance
    /\ HandlerFrame

\* Thread t calls get_referable_after_free_handler() and takes the lock,
\* hpp:64-66.
ThreadGetLock(t) ==
    /\ Running
    /\ threads[t].pc = "idle"
    /\ scoped_lock(t)
    /\ threads' = [threads EXCEPT ![t].pc = "get_locked"]
    /\ UNCHANGED referable_after_free_handler_instance
    /\ HandlerFrame

\* hpp:67, the copy of the slot into the return value. A copy made while
\* another thread is inside the assignment is a data race: what it reads is
\* no handler that was ever passed.
ThreadGetLoad(t) ==
    /\ threads[t].pc = "get_locked"
    /\ threads' = [threads EXCEPT
            ![t].pc = "get_loaded",
            ![t].got = IF Writing THEN "torn" ELSE get_referable_after_free_handler]
    /\ UNCHANGED <<referable_after_free_handler_instance, referable_after_free_handler_mutex>>
    /\ HandlerFrame

\* hpp:68, get_referable_after_free_handler returns and releases the lock.
ThreadGetReturn(t) ==
    /\ threads[t].pc = "get_loaded"
    /\ scoped_unlock(t)
    /\ threads' = [threads EXCEPT ![t].pc = "idle"]
    /\ UNCHANGED referable_after_free_handler_instance
    /\ HandlerFrame

NextHandler ==
    \/ \E t \in Threads, hd \in Handlers : ThreadSetLock(t, hd)
    \/ \E t \in Threads : ThreadSetBegin(t)
    \/ \E t \in Threads : ThreadSetStore(t)
    \/ \E t \in Threads : ThreadSetReturn(t)
    \/ \E t \in Threads : ThreadGetLock(t)
    \/ \E t \in Threads : ThreadGetLoad(t)
    \/ \E t \in Threads : ThreadGetReturn(t)

SpecHandler == Init /\ [][NextHandler]_vars

\* C20: there is one handler slot and the last write wins. While no thread
\* has called set_referable_after_free_handler the slot holds the default
\* handler; a set that has stored and not yet returned finds its own
\* handler in the slot; a get that has read and not yet returned holds the
\* slot's handler, which is one that was passed to a set or the default,
\* never a mix of two.
C20_LastWriteWins ==
    /\ (\A t \in Threads : threads[t].arg = "none")
        => referable_after_free_handler_instance = "default"
    /\ \A t \in Threads :
        /\ threads[t].pc = "set_stored"
            => referable_after_free_handler_instance = threads[t].arg
        /\ threads[t].pc = "get_loaded"
            => /\ threads[t].got = referable_after_free_handler_instance
               /\ threads[t].got \in Handlers
               /\ threads[t].got = "default"
                    \/ \E u \in Threads : threads[u].arg = threads[t].got

\* C20's case: a thread that itself set the default handler reads the flag
\* handler another thread set after it.
C20_Witness ==
    \E t \in Threads, u \in Threads :
        /\ t # u
        /\ threads[t].pc = "get_loaded" /\ threads[t].got = "flag"
        /\ threads[t].arg = "default" /\ threads[u].arg = "flag"
        /\ threads[u].pc = "idle"

\* ------------------------------------------------------------ every build

\* A translation unit compiled in any of the builds: the implementation is
\* the one the header selects.
InitBuilds ==
    /\ build \in Builds
    /\ strategy = selected_strategy(build.defined)
    /\ budget \in Budgets(strategy)
    /\ referable_after_free_handler_instance = "default"
    /\ proc = "running"
    /\ ub = {}
    /\ NoObjects
    /\ NoThreads

\* The run of the documentation tests in every build.
SpecBuilds == InitBuilds /\ [][NextIndependent]_vars

\* The destructor of o calls the handler in this step.
CallsHandler(o) == DestroyOwner(o) /\ Len(report'[o]) = Len(report[o]) + 1

\* C21: when no handler was set, a violation found by an owner's destructor
\* is reported by raising an exception that carries the message if the
\* build has exceptions enabled; the process is terminated if and only if
\* exceptions are not enabled.
C21_DefaultHandlerRaises ==
    [][\A o \in Owners :
        (CallsHandler(o) /\ referable_after_free_handler_instance = "default")
        => (proc' = "terminated" <=> ~build.exceptions)]_vars

\* The strategy the class documentation, hpp:458-472, names for a build:
\* the macro that is defined, else counted "in the release mode" and
\* tracked "in the debug mode".
DocumentedStrategy(defined) ==
    IF "na_ref_ptr_uncounted" \in defined THEN "uncounted"
    ELSE IF "na_ref_ptr_counted" \in defined THEN "counted"
    ELSE IF "na_ref_ptr_tracked" \in defined THEN "tracked"
    ELSE IF "NDEBUG" \in defined THEN "counted"
    ELSE "tracked"

\* C22: a translation unit that defines one of the three strategy macros
\* gets that strategy; one that defines none gets the tracked strategy when
\* NDEBUG is not defined and the counted strategy when NDEBUG is defined.
C22_StrategySelection ==
    strategy = DocumentedStrategy(build.defined)

\* ------------------------------------------------------------- dereference

\* The object stored at address v while its box is alive: member v[2] of
\* the value that box v[1] holds now.
ValueAt(v) == <<boxed[v[1]], v[2]>>

\* ref_ptr::operator*(), hpp:969-993: return *value.
Deref(h) == ValueAt(value[h])

\* The run of the construction tests: boxes are constructed and assigned,
\* handles are constructed from boxes, from members of boxes and from
\* members through other handles, and both are destroyed.
NextTargets ==
    \/ \E o \in Owners : ConstructReferable(o)
    \/ \E dst \in Owners, src \in Owners : CopyAssignReferable(dst, src)
    \/ \E dst \in Owners, src \in Owners : MoveAssignReferable(dst, src)
    \/ \E h \in Handles, o \in Owners : ConstructFromReferable(h, o)
    \/ \E h \in Handles, o \in Owners, f \in Fields : ConstructFromReferableMember(h, o, f)
    \/ \E h \in Handles, src \in Handles, f \in Fields : CopyConstructMember(h, src, f)
    \/ \E h \in Handles : DestroyHandle(h)
    \/ \E o \in Owners : DestroyOwner(o)

SpecTargets == Init /\ [][NextTargets]_vars

\* C23: a handle constructed from a box targets the box's value, and a
\* handle projected to a member, from the box or through a handle to the
\* whole value of a live box, targets that member inside the box; an
\* assignment to a live box leaves the target of every handle as it was, so
\* the handles into that box then dereference to the members of the value
\* the box was assigned.
C23_TargetsBoxValue ==
    [][/\ \A h \in Handles, o \in Owners :
            /\ ConstructFromReferable(h, o)
                => value'[h] = <<o, 0>> /\ Deref(h)' = <<boxed[o], 0>>
            /\ \A f \in Fields :
                ConstructFromReferableMember(h, o, f)
                => value'[h] = <<o, f>> /\ Deref(h)' = <<boxed[o], f>>
            /\ \A src \in Handles, f \in Fields :
                (CopyConstructMember(h, src, f) /\ value[src] = <<o, 0>> /\ Alive(o))
                => value'[h] = <<o, f>> /\ Deref(h)' = <<boxed[o], f>>
       /\ \A dst \in Owners, src \in Owners :
            (CopyAssignReferable(dst, src) \/ MoveAssignReferable(dst, src))
            => \A h \in Handles :
                (Live(h) /\ value[h][1] = dst)
                => /\ value'[h] = value[h]
                   /\ Deref(h)' = <<boxed[src], value[h][2]>>]_vars

\* C23's case: a handle to the whole value and a handle to a further member
\* of a live box, which is about to be assigned the different value of
\* another box: both handles then dereference to the new value.
C23_Witness ==
    \E dst \in Owners, src \in Owners, h \in Handles, g \in Handles :
        /\ Alive(dst) /\ Alive(src) /\ boxed[dst] # boxed[src]
        /\ Live(h) /\ value[h] = <<dst, 0>>
        /\ Live(g) /\ value[g] = <<dst, 1>>
        /\ ENABLED (CopyAssignReferable(dst, src)
                    /\ Deref(h)' = <<boxed[src], 0>>
                    /\ Deref(g)' = <<boxed[src], 1>>
                    /\ Deref(h)' # Deref(h))

\* C24: a box constructed from a value, by copy from a box or by move from
\* a box starts with a count of 0 and, under the tracked strategy, with an
\* empty list: its head has no next node and its message names no handle.
C24_FreshBoxEmpty ==
    [][\A o \in Owners :
        (\/ ConstructReferable(o)
         \/ \E src \in Owners : CopyConstructReferable(o, src)
         \/ \E src \in Owners : MoveConstructReferable(o, src))
        => /\ get_ref(o)' = 0
           /\ strategy = "tracked"
                => /\ next'[HeadOf(o)] = NullNode
                   /\ get_referable_after_free_message(o)'.nodes = <<>>]_vars

\* C24's case: under the tracked strategy a box whose list holds a handle is
\* copied and the copy starts with count 0 and an empty list.
C24_Witness ==
    \E o \in Owners, src \in Owners :
        /\ strategy = "tracked" /\ Alive(src)
        /\ get_ref(src) = 1 /\ next[HeadOf(src)] # NullNode
        /\ ENABLED (CopyConstructReferable(o, src) /\ get_ref(o)' = 0
                    /\ next'[HeadOf(o)] = NullNode
                    /\ next'[HeadOf(src)] = next[HeadOf(src)])

\* C29: move-constructing a box from a box gives the new box a count of 0
\* and transfers no registration: the source's count and list, and the
\* target and registry pointer of every handle, are what they were before.
C29_MoveBoxTransfersNothing ==
    [][\A o \in Owners, src \in Owners :
        MoveConstructReferable(o, src)
        => /\ owner_ref_count'[o] = 0
           /\ owner_ref_count'[src] = owner_ref_count[src]
           /\ UNCHANGED handleVars
           /\ \A h \in Handles : Registered(h, src) => Registered(h, src)'
           /\ get_referable_after_free_message(src)'
                = get_referable_after_free_message(src)]_vars

\* C29's case: a box with two registered handles (count 2) is moved from:
\* the new box starts at 0, the source stays at 2 with both handles.
C29_Witness ==
    \E o \in Owners, src \in Owners :
        /\ Counting /\ Alive(src) /\ owner_ref_count[src] = 2
        /\ Cardinality(Registrations(src)) = 2
        /\ ENABLED (MoveConstructReferable(o, src) /\ owner_ref_count'[o] = 0
                    /\ owner_ref_count'[src] = 2
                    /\ Cardinality(Registrations(src)') = 2)

\* The nodes reachable from the head of o by following next pointers.
Reachable(o) == WalkFrom(next[HeadOf(o)], MaxHandles)

\* C25: under the tracked strategy, between the calls of a live ref_counter,
\* ref_count equals the number of nodes reachable from the head by following
\* next pointers, after any sequence of add_ref and remove_ref calls on
\* distinct live nodes.
C25_CountIsListLength ==
    \A o \in Owners :
        (strategy = "tracked" /\ Alive(o)) => get_ref(o) = Len(Reachable(o))

\* C26: under the tracked strategy, move-constructing h from a handle src
\* that is the only one registered with a live registry o transfers the
\* registration: afterwards the list of o holds the node of h and not the
\* node of src, and the destructor of a handle that holds the only
\* registration of o runs to its end, lowers the count to 0 and leaves the
\* list of o empty.
C26_MoveTransfersRegistration ==
    [][\A h \in Handles, o \in Owners :
        /\ \A src \in Handles :
            (MoveConstruct(h, src) /\ strategy = "tracked" /\ Alive(o)
                /\ SoleRegistration(src, o))
            => /\ proc' = "running"
               /\ Reachable(o)' = <<NodeOf(h)>>
        /\ (DestroyHandle(h) /\ strategy = "tracked" /\ Alive(o)
                /\ Registrations(o) = {h} /\ get_ref(o) = 1)
            => /\ proc' = "running"
               /\ get_ref(o)' = 0
               /\ Reachable(o)' = <<>>]_vars

\* ------------------------------------- move assignment, statement by statement

\* A statement of an operation on handles, executed by a thread, ends with
\* memory M and, when it ran to its end, with the registry pointers rc, the
\* targets v and the threads th.
FinishStatement(M, rc, v, th) ==
    IF M.proc = "running"
    THEN /\ Commit(M)
         /\ ref_count' = rc /\ value' = v /\ threads' = th
         /\ UNCHANGED <<strategy, budget, build, referable_after_free_handler_instance,
                        ostate, okind, boxed, hstate, report,
                        referable_after_free_handler_mutex>>
    ELSE Stop(M.proc, M.ub)

\* No thread is inside a call.
Quiet == \A t \in Threads : threads[t].pc = "idle"

\* Thread t calls a = std::move(b) on a registered b and an a that is empty
\* or registered elsewhere, hpp:857-866: this->remove_ref() if this is
\* bound, then this->ref_count = other.ref_count.  tmp keeps the count of
\* b's registry as the call found it.
MoveAssignBegin(t, a, b) ==
    /\ Running /\ strategy = "tracked" /\ Quiet
    /\ Live(a) /\ Live(b) /\ a # b
    /\ ref_count[b] # NullReg /\ ref_count[a] # ref_count[b]
    /\ FinishStatement(remove_ref_if_bound(Memory, ref_count[a], a),
                       [ref_count EXCEPT ![a] = ref_count[b]],
                       value,
                       [threads EXCEPT ![t].pc = "move_assign_rebound",
                                       ![t].this = a, ![t].other = b,
                                       ![t].tmp = get_ref(ref_count[b])])

\* hpp:868-872: if (other.ref_count != nullptr) other.remove_ref();
MoveAssignRemoveOther(t) ==
    /\ Running /\ threads[t].pc = "move_assign_rebound"
    /\ LET b == threads[t].other IN
       FinishStatement(remove_ref_if_bound(Memory, ref_count[b], b),
                       ref_count, value,
                       [threads EXCEPT ![t].pc = "move_assign_removed"])

\* hpp:874-877: if (this->ref_count != nullptr) this->add_ref();
MoveAssignAddThis(t) ==
    /\ Running /\ threads[t].pc = "move_assign_removed"
    /\ LET a == threads[t].this IN
       FinishStatement(add_ref_if_bound(Memory, ref_count[a], a),
                       ref_count, value,
                       [threads EXCEPT ![t].pc = "move_assign_added"])

\* hpp:880-886: other.ref_count = nullptr; this->value = other.value;
\* other.value = nullptr; return *this.
MoveAssignEnd(t) ==
    /\ Running /\ threads[t].pc = "move_assign_added"
    /\ LET a == threads[t].this
           b == threads[t].other
       IN  FinishStatement(Memory,
                           [ref_count EXCEPT ![b] = NullReg],
                           [value EXCEPT ![a] = value[b], ![b] = NullValue],
                           [threads EXCEPT ![t] = IdleThread])

\* Thread t is between two statements of a move assignment.
InMoveAssign(t) ==
    threads[t].pc \in {"move_assign_rebound", "move_assign_removed", "move_assign_added"}

\* Boxes and handles are set up while no assignment runs; one thread then
\* runs a = std::move(b) statement by statement while the owner's
\* destructor, the failure check, may run in another thread at any point.
NextMoveAssignSteps ==
    \/ \E o \in Owners : Quiet /\ ConstructReferable(o)
    \/ \E h \in Handles : Quiet /\ DefaultConstruct(h)
    \/ \E h \in Handles, o \in Owners : Quiet /\ ConstructFromReferable(h, o)
    \/ \E t \in Threads, a \in Handles, b \in Handles : MoveAssignBegin(t, a, b)
    \/ \E t \in Threads : MoveAssignRemoveOther(t)
    \/ \E t \in Threads : MoveAssignAddThis(t)
    \/ \E t \in Threads : MoveAssignEnd(t)
    \/ \E o \in Owners : DestroyOwner(o)

InitMoveAssignSteps == Init /\ strategy = "tracked"

SpecMoveAssignSteps == InitMoveAssignSteps /\ [][NextMoveAssignSteps]_vars

\* C27: under the tracked strategy, while a thread is inside
\* a = std::move(b) with b registered with a live registry and a not
\* registered with it, the count of that registry, which any other thread
\* may read, is never lower than the call found it: it never reads 0 when b
\* held the only registration.
C27_MoveAssignNeverLowers ==
    \A t \in Threads :
        (Running /\ InMoveAssign(t) /\ ref_count[threads[t].other] # NullReg
            /\ Alive(ref_count[threads[t].other]))
        => get_ref(ref_count[threads[t].other]) >= threads[t].tmp

\* Node n comes before node m in the sequence of nodes a message names.
Before(nodes, n, m) ==
    \E i \in 1..Len(nodes), j \in 1..Len(nodes) : i < j /\ nodes[i] = n /\ nodes[j] = m

\* C28: under the tracked strategy the message a violating destructor passes
\* to the handler names the registered handles in reverse order of
\* registration: of any two handles registered with the owner at that time,
\* the one registered later comes before the one registered earlier.
\* (Handles constructed independently register in the order of their slots.)
C28_MostRecentFirst ==
    [][\A o \in Owners :
        (CallsHandler(o) /\ strategy = "tracked")
        => LET msg == report'[o][Len(report'[o])].msg IN
           \A g \in Registrations(o), h \in Registrations(o) :
                g < h => Before(msg.nodes, NodeOf(h), NodeOf(g))]_vars

\* ------------------------------------------- a handler that resets handles

\* Fault: a destructor that releases the owner's members and then calls
\* the handler.
EnterHandlerAfterRelease(t, o) ==
    /\ report' = [report EXCEPT ![o] =
            Append(@, [by |-> get_referable_after_free_handler, msg |-> DestructorMessage(o)])]
    /\ threads' = [threads EXCEPT ![t].pc = "in_handler", ![t].owner = o]
    /\ ostate' = [ostate EXCEPT ![o] = "destroyed"]
    /\ UNCHANGED <<sysVars, okind, owner_ref_count, boxed, listVars, handleVars,
                   referable_after_free_handler_mutex>>

\* hpp:223 and hpp:228: the destructor of o, run by thread t, calls the
\* handler it read from the slot; the call is made from the destructor's
\* body, so the members of o (the registry and the value) are not yet
\* destroyed.
EnterHandler(t, o) ==
    /\ report' = [report EXCEPT ![o] =
            Append(@, [by |-> get_referable_after_free_handler, msg |-> DestructorMessage(o)])]
    /\ threads' = [threads EXCEPT ![t].pc = "in_handler", ![t].owner = o]
    /\ UNCHANGED <<sysVars, ownerVars, listVars, handleVars,
                   referable_after_free_handler_mutex>>

\* referable::~referable(), hpp:218-231, run by thread t with a user handler
\* in the slot that resets the handles still registered ("release"): the
\* destructor enters the handler; with any other handler, or with no
\* registration left, it is DestroyOwner.
DestructorBegin(t, o) ==
    /\ Running /\ Quiet /\ Alive(o)
    /\ IF Counting /\ get_ref(o) # 0 /\ get_referable_after_free_handler = "release"
       THEN EnterHandler(t, o)
       ELSE DestroyOwner(o)

\* The handler, called by the destructor of an owner, resets a handle that
\* is registered with that owner: ref_ptr::reset(), hpp:935-945.
HandlerReset(t, h) ==
    /\ threads[t].pc = "in_handler"
    /\ ref_count[h] = threads[t].owner
    /\ reset(h)

\* The handler returns, the destructor's body ends (hpp:231) and the
\* members of the owner are destroyed.
HandlerReturn(t) ==
    /\ Running /\ threads[t].pc = "in_handler"
    /\ ostate' = [ostate EXCEPT ![threads[t].owner] = "destroyed"]
    /\ threads' = [threads EXCEPT ![t] = IdleThread]
    /\ UNCHANGED <<sysVars, okind, owner_ref_count, boxed, listVars, handleVars, report,
                   referable_after_free_handler_mutex>>

\* Boxes and handles are constructed, a releasing handler is put in the
\* slot, and boxes are destroyed while handles are registered.
NextHandlerRuns ==
    \/ Quiet /\ set_referable_after_free_handler("release")
    \/ \E o \in Owners : Quiet /\ ConstructReferable(o)
    \/ \E h \in Handles, o \in Owners : Quiet /\ ConstructFromReferable(h, o)
    \/ \E t \in Threads, o \in Owners : DestructorBegin(t, o)
    \/ \E t \in Threads, h \in Handles : HandlerReset(t, h)
    \/ \E t \in Threads : HandlerReturn(t)

SpecHandlerRuns == Init /\ [][NextHandlerRuns]_vars

\* C30: on a violating destruction the handler runs inside the owner's
\* destructor before the value and the registry are released: while the
\* handler runs the owner is alive, and a reset() the handler makes on a
\* handle registered with the owner runs to its end on the live registry
\* and lowers its count by 1.
C30_HandlerBeforeRelease ==
    [][\A t \in Threads :
        threads[t].pc = "in_handler"
        => /\ Alive(threads[t].owner)
           /\ boxed[threads[t].owner] # 0
           /\ \A h \in Handles :
                HandlerReset(t, h)
                => /\ proc' = "running"
                   /\ Alive(threads[t].owner)'
                   /\ get_ref(threads[t].owner)' = get_ref(threads[t].owner) - 1]_vars

\* C30's case: the destructor of an owner with two registered handles is in
\* the handler, which has reset one handle (count 1) and is about to reset
\* the other on the live registry.
C30_Witness ==
    \E t \in Threads, g \in Handles, h \in Handles :
        /\ Counting /\ threads[t].pc = "in_handler"
        /\ Alive(threads[t].owner) /\ get_ref(threads[t].owner) = 1
        /\ Len(report[threads[t].owner]) = 1
        /\ Live(g) /\ ~AsBool(g)
        /\ Registered(h, threads[t].owner)
        /\ ENABLED (HandlerReset(t, h) /\ proc' = "running"
                    /\ get_ref(threads[t].owner)' = 0)

\* A live handle with a null target and a null registry pointer: what the
\* default constructor, a move from the handle and reset() leave.
Empty(h) == Live(h) /\ ref_count[h] = NullReg /\ value[h] = NullValue

\* What deregistering handle a does to the count of registry o.
AfterDeregister(o, a) ==
    owner_ref_count[o] - (IF ref_count[a] = o THEN 1 ELSE 0)

\* C34: operations on an empty handle e touch no registry: its destructor,
\* reset(), copy construction from it and move construction from it change
\* no count and no list and leave e and the new handle empty; copy or move
\* assignment from it to a handle a whose registry, if it has one, is alive
\* lowers the count of a's previous registry by 1, changes no other count
\* and leaves a empty.
C34_EmptyTouchesNoRegistry ==
    [][\A e \in Handles :
        Empty(e)
        => /\ (DestroyHandle(e) \/ reset(e))
                => /\ proc' = "running"
                   /\ owner_ref_count' = owner_ref_count
                   /\ UNCHANGED listVars
           /\ reset(e) => Empty(e)'
           /\ \A h \in Handles :
                (CopyConstruct(h, e) \/ MoveConstruct(h, e))
                => /\ proc' = "running"
                   /\ owner_ref_count' = owner_ref_count
                   /\ UNCHANGED listVars
                   /\ Empty(h)' /\ Empty(e)'
           /\ \A a \in Handles \ {e} :
                ((CopyAssign(a, e) \/ MoveAssign(a, e))
                    /\ (ref_count[a] # NullReg => Alive(ref_count[a])))
                => /\ proc' = "running"
                   /\ Empty(a)' /\ Empty(e)'
                   /\ \A o \in Owners : owner_ref_count'[o] = AfterDeregister(o, a)]_vars

\* Handle operations of every kind on boxes that stay alive.
NextHandleOps ==
    \/ \E o \in Owners : ConstructReferable(o)
    \/ \E h \in Handles : DefaultConstruct(h)
    \/ \E h \in Handles, o \in Owners : ConstructFromReferable(h, o)
    \/ \E h \in Handles, o \in Owners, f \in Fields : ConstructFromReferableMember(h, o, f)
    \/ \E h \in Handles, src \in Handles : CopyConstruct(h, src)
    \/ \E h \in Handles, src \in Handles, f \in Fields : CopyConstructMember(h, src, f)
    \/ \E h \in Handles, src \in Handles : MoveConstruct(h, src)
    \/ \E h \in Handles, src \in Handles, f \in Fields : MoveConstructMember(h, src, f)
    \/ \E a \in Handles, b \in Handles : CopyAssign(a, b)
    \/ \E a \in Handles, b \in Handles : MoveAssign(a, b)
    \/ \E h \in Handles : DestroyHandle(h)
    \/ \E h \in Handles : reset(h)

SpecHandleOps == Init /\ [][NextHandleOps]_vars

\* C35: under the counted and tracked strategies, after any sequence of
\* handle constructions, projections, copies, moves, assignments (self-
\* assignment included), resets and destructions on live owners, every
\* operation has run to its end and the count of every live owner equals the
\* number of live handles whose registry pointer is that owner's registry.
C35_CountIsRegistrations ==
    Counting
    => /\ proc = "running"
       /\ \A o \in Owners :
            Alive(o) => get_ref(o) = Cardinality(Registrations(o))

\* C36: no operation on a handle reads or writes the registry of an owner
\* that has been destroyed: also after an owner was destroyed with handles
\* outstanding and a user handler returned, the destruction, reset or
\* reassignment of a surviving handle makes no access to the destroyed
\* registry.
C36_NoAccessToDeadRegistry ==
    "dead_registry" \notin ub

\* n is the head of o or a node reachable from it.
Linked(o, n) == n = HeadOf(o) \/ n \in NodesOf([nodes |-> Reachable(o)])

\* C37: under the tracked strategy the list of a live owner is a well-formed
\* doubly-linked list after any sequence of add_ref and remove_ref calls:
\* head.prev is null, every node n reachable from the head has
\* n.prev.next = n and n.next = null or n.next.prev = n, and every reachable
\* node is the node of a live handle registered with the owner.
C37_ListWellFormed ==
    \A o \in Owners :
        (strategy = "tracked" /\ Alive(o))
        => /\ prev[HeadOf(o)] = NullNode
           /\ \A i \in 1..Len(Reachable(o)) :
                LET n == Reachable(o)[i] IN
                /\ prev[n] # NullNode /\ next[prev[n]] = n
                /\ next[n] = NullNode \/ prev[next[n]] = n
                /\ n[1] = "node" /\ Registered(n[2], o)

\* The registry of owner k keeps its count and its list in this step.
Kept(k) ==
    /\ owner_ref_count'[k] = owner_ref_count[k]
    /\ Reachable(k)' = Reachable(k)
    /\ \A n \in NodeRefs : Linked(k, n) => next'[n] = next[n] /\ prev'[n] = prev[n]

\* Handle h is empty or bound to a live registry other than that of k.
BoundElsewhere(h, k) ==
    /\ ref_count[h] # k
    /\ ref_count[h] # NullReg => Alive(ref_count[h])

\* C39: registries of different owners are independent: constructing a
\* handle from an owner, copying or moving a handle, and resetting or
\* destroying a handle, each on a live registry other than that of a live
\* owner k, leave the count and the list of k as they were; a copy or move
\* assignment whose destination and source are both bound to live
\* registries other than that of k leaves k's count and list as they were.
C39_RegistriesIndependent ==
    [][\A k \in Owners :
        Alive(k)
        => \A h \in Handles :
            /\ \A o \in Owners \ {k} :
                (\/ ConstructFromReferable(h, o)
                 \/ ConstructFromEnableRefFromThis(h, o)
                 \/ \E f \in Fields : ConstructFromReferableMember(h, o, f))
                => Kept(k)
            /\ \A src \in Handles :
                ((\/ CopyConstruct(h, src)
                  \/ MoveConstruct(h, src)
                  \/ \E f \in Fields : CopyConstructMember(h, src, f)
                  \/ \E f \in Fields : MoveConstructMember(h, src, f))
                 /\ BoundElsewhere(src, k))
                => Kept(k)
            /\ ((reset(h) \/ DestroyHandle(h)) /\ BoundElsewhere(h, k))
                => Kept(k)
            /\ \A b \in Handles :
                ((CopyAssign(h, b) \/ MoveAssign(h, b))
                 /\ BoundElsewhere(h, k) /\ BoundElsewhere(b, k))
                => Kept(k)]_vars

\* ------------------------------- a violating destructor and concurrent sets

\* Some thread is inside the destructor of o.
BeingDestroyed(o) ==
    \E u \in Threads : threads[u].pc \in {"dtor_get", "dtor_locked", "dtor_loaded", "dtor_call"}
                       /\ threads[u].owner = o

\* referable::~referable(), hpp:218-231, run by thread t: the test of the
\* count (hpp:221 counted, hpp:226 tracked) finds a registration left and
\* the destructor goes on to call get_referable_after_free_handler().
DestructorTest(t, o) ==
    /\ Running /\ threads[t].pc = "idle"
    /\ Alive(o) /\ ~BeingDestroyed(o)
    /\ Counting /\ get_ref(o) # 0
    /\ threads' = [threads EXCEPT ![t].pc = "dtor_get", ![t].owner = o]
    /\ UNCHANGED <<referable_after_free_handler_instance, referable_after_free_handler_mutex>>
    /\ HandlerFrame

\* get_referable_after_free_handler() called by the destructor, hpp:64-66:
\* the lock is taken.
DestructorGetLock(t) ==
    /\ Running /\ threads[t].pc = "dtor_get"
    /\ scoped_lock(t)
    /\ threads' = [threads EXCEPT ![t].pc = "dtor_locked"]
    /\ UNCHANGED referable_after_free_handler_instance
    /\ HandlerFrame

\* hpp:67: the slot is copied into the value the call returns.
DestructorGetLoad(t) ==
    /\ threads[t].pc = "dtor_locked"
    /\ threads' = [threads EXCEPT
            ![t].pc = "dtor_loaded",
            ![t].got = IF Writing THEN "torn" ELSE get_referable_after_free_handler]
    /\ UNCHANGED <<referable_after_free_handler_instance, referable_after_free_handler_mutex>>
    /\ HandlerFrame

\* hpp:68: get_referable_after_free_handler returns the copy and releases
\* the lock; the destructor holds the copy as a temporary.
DestructorGetReturn(t) ==
    /\ threads[t].pc = "dtor_loaded"
    /\ scoped_unlock(t)
    /\ threads' = [threads EXCEPT ![t].pc = "dtor_call"]
    /\ UNCHANGED referable_after_free_handler_instance
    /\ HandlerFrame

\* The call of handler hd with msg made by thread t in the destructor of o:
\* the default handler never returns (hpp:42-46), any other handler returns
\* and the destructor completes.
Invoke(t, o, hd, msg) ==
    /\ report' = [report EXCEPT ![o] = Append(@, [by |-> hd, msg |-> msg])]
    /\ IF hd = "default"
       THEN proc' = "terminated" /\ UNCHANGED <<ostate, threads>>
       ELSE /\ proc' = "running"
            /\ ostate' = [ostate EXCEPT ![o] = "destroyed"]
            /\ threads' = [threads EXCEPT ![t] = IdleThread]
    /\ UNCHANGED <<strategy, budget, build, referable_after_free_handler_instance, ub,
                   okind, owner_ref_count, boxed, listVars, handleVars,
                   referable_after_free_handler_mutex>>

\* Fault: the destructor calls whatever handler the slot holds at the time
\* of the call.
HandlerInSlot(t) == referable_after_free_handler_instance

\* The handler the destructor run by thread t calls: the temporary that
\* get_referable_after_free_handler() returned, hpp:223 and hpp:228.
HandlerRead(t) == threads[t].got

\* hpp:223 and hpp:228: the argument is built (under the tracked strategy
\* by get_referable_after_free_message, hpp:134-155) and the handler that
\* was read is called with it.
DestructorInvoke(t) ==
    /\ Running /\ threads[t].pc = "dtor_call"
    /\ LET o == threads[t].owner
           msg == DestructorMessage(o) IN
       IF WalkLoops(msg) THEN Stop("hung", {"cyclic_list"})
       ELSE IF WalkKinds(msg) # {} THEN Stop("undefined", WalkKinds(msg))
       ELSE Invoke(t, o, HandlerRead(t), msg)

\* Boxes and handles are constructed while no thread is inside a call;
\* threads set the handler and destroy boxes that still have registered
\* handles, in any interleaving.
NextViolations ==
    \/ \E o \in Owners : Quiet /\ ConstructReferable(o)
    \/ \E h \in Handles, o \in Owners : Quiet /\ ConstructFromReferable(h, o)
    \/ \E t \in Threads, hd \in Handlers : ThreadSetLock(t, hd)
    \/ \E t \in Threads : ThreadSetBegin(t)
    \/ \E t \in Threads : ThreadSetStore(t)
    \/ \E t \in Threads : ThreadSetReturn(t)
    \/ \E t \in Threads, o \in Owners : DestructorTest(t, o)
    \/ \E t \in Threads : DestructorGetLock(t)
    \/ \E t \in Threads : DestructorGetLoad(t)
    \/ \E t \in Threads : DestructorGetReturn(t)
    \/ \E t \in Threads : DestructorInvoke(t)

SpecViolations == Init /\ [][NextViolations]_vars

\* C31: a violating destruction calls the handler that was in the slot when
\* the destructor read it. The read takes the handler the slot holds at that
\* moment, which is a handler that was passed to a completed set or the
\* default one; nothing another thread does between the read and the call,
\* a set included, changes what this destructor holds; and the call is made
\* to the handler that was read.
C31_InvokesHandlerRead ==
    [][\A t \in Threads :
        /\ DestructorGetLoad(t)
            => /\ threads'[t].got = referable_after_free_handler_instance
               /\ threads'[t].got \in Handlers
               /\ \A u \in Threads : threads[u].pc \notin {"set_writing"}
        /\ (threads[t].pc = "dtor_call" /\ threads'[t].pc = "dtor_call")
            => threads'[t].got = threads[t].got
        /\ (DestructorInvoke(t) /\ proc' # "hung" /\ proc' # "undefined")
            => /\ Len(report'[threads[t].owner]) = Len(report[threads[t].owner]) + 1
               /\ report'[threads[t].owner][Len(report'[threads[t].owner])].by
                    = threads[t].got]_vars

\* C31's case: a destructor read the flag handler, another thread then
\* completed a set of the default handler, and the destructor is about to
\* call the flag handler.
C31_Witness ==
    \E t \in Threads, u \in Threads :
        /\ t # u
        /\ threads[t].pc = "dtor_call" /\ threads[t].got = "flag"
        /\ threads[u].pc = "idle" /\ threads[u].arg = "default"
        /\ referable_after_free_handler_instance = "default"
        /\ ENABLED (DestructorInvoke(t)
                    /\ report'[threads[t].owner][Len(report'[threads[t].owner])].by = "flag"
                    /\ ostate'[threads[t].owner] = "destroyed")

\* ---------------------------- several threads, one registry with its mutex

\* Fault: a lock on the registry's mutex that is granted whoever holds it.
ref_counter_lock_granted_always(t, o) == mutex' = [mutex EXCEPT ![o] = t]

\* std::scoped_lock lock{mutex} in ref_counter::add_ref (hpp:104) and
\* ref_counter::remove_ref (hpp:114), taken by thread t on the registry of
\* owner o: granted only while no thread holds the mutex.
ref_counter_lock(t, o) ==
    /\ mutex[o] = 0
    /\ mutex' = [mutex EXCEPT ![o] = t]

\* The end of ref_counter::add_ref / remove_ref: `lock` goes out of scope.
ref_counter_unlock(t, o) == mutex' = [mutex EXCEPT ![o] = 0]

\* Thread t is inside the mutex-guarded section of the registry of owner o:
\* between taking and releasing the registry's mutex.
InSection(t, o) ==
    /\ threads[t].pc \in {"add_locked", "add_loaded", "add_stored",
                          "remove_locked", "remove_loaded", "remove_stored"}
    /\ threads[t].owner = o

\* Handle h is the object of a call some thread is making.
InUse(h) == \E u \in Threads : threads[u].pc # "idle" /\ threads[u].this = h

\* Thread t runs ref_ptr<T> h{r} on the shared box: the members are
\* initialised (hpp:498-505), add_ref() (hpp:996-1003) calls
\* ref_counter::add_ref(&list_node), which takes the lock (hpp:102-104).
RegistryAddLock(t, h) ==
    /\ Running /\ strategy = "tracked" /\ threads[t].pc = "idle"
    /\ threads[t].regs < MaxRegs
    /\ Alive(SharedOwner) /\ FreshHandle(h)
    /\ ref_counter_lock(t, SharedOwner)
    /\ hstate' = [hstate EXCEPT ![h] = "live"]
    /\ ref_count' = [ref_count EXCEPT ![h] = SharedOwner]
    /\ value' = [value EXCEPT ![h] = AddrOf(SharedOwner, 0)]
    /\ threads' = [threads EXCEPT ![t].pc = "add_locked", ![t].this = h,
                                  ![t].owner = SharedOwner]
    /\ UNCHANGED <<sysVars, ownerVars, next, prev, report,
                   referable_after_free_handler_mutex>>

\* ++ref_count on the plain std::size_t (hpp:106, hpp:158): the load ...
RegistryAddLoad(t) ==
    /\ Running /\ threads[t].pc = "add_locked"
    /\ threads' = [threads EXCEPT ![t].pc = "add_loaded",
                                  ![t].tmp = owner_ref_count[threads[t].owner]]
    /\ UNCHANGED <<sysVars, ownerVars, listVars, handleVars, report,
                   referable_after_free_handler_mutex>>

\* ... the store of the loaded count plus one, and the three pointer
\* assignments that put the node first in the list (hpp:107-109).
RegistryAddStore(t) ==
    /\ Running /\ threads[t].pc = "add_loaded"
    /\ LET o == threads[t].owner
           M == ref_counter_add_ref(Memory, o, NodeOf(threads[t].this))
       IN  FinishStatement(IF M.proc = "running"
                           THEN [M EXCEPT !.cnt[o] = Wrap(threads[t].tmp + 1)]
                           ELSE M,
                           ref_count, value,
                           [threads EXCEPT ![t].pc = "add_stored"])

\* hpp:110: add_ref returns, the lock is released and the constructor ends.
RegistryAddUnlock(t) ==
    /\ Running /\ threads[t].pc = "add_stored"
    /\ ref_counter_unlock(t, threads[t].owner)
    /\ threads' = [threads EXCEPT ![t] = [IdleThread EXCEPT
                        !.regs = threads[t].regs + 1, !.deregs = threads[t].deregs]]
    /\ UNCHANGED <<sysVars, ownerVars, next, prev, handleVars, report,
                   referable_after_free_handler_mutex>>

\* Thread t destroys handle h: ref_ptr::~ref_ptr (hpp:924-932) calls
\* remove_ref() (hpp:1005-1012), which calls
\* ref_counter::remove_ref(&list_node), which takes the lock (hpp:112-114).
RegistryRemoveLock(t, h) ==
    /\ Running /\ strategy = "tracked" /\ threads[t].pc = "idle"
    /\ threads[t].deregs < threads[t].regs
    /\ Live(h) /\ ~InUse(h) /\ ref_count[h] = SharedOwner
    /\ ref_counter_lock(t, SharedOwner)
    /\ threads' = [threads EXCEPT ![t].pc = "remove_locked", ![t].this = h,
                                  ![t].owner = SharedOwner]
    /\ UNCHANGED <<sysVars, ownerVars, next, prev, handleVars, report,
                   referable_after_free_handler_mutex>>

\* --ref_count (hpp:116): the load ...
RegistryRemoveLoad(t) ==
    /\ Running /\ threads[t].pc = "remove_locked"
    /\ threads' = [threads EXCEPT ![t].pc = "remove_loaded",
                                  ![t].tmp = owner_ref_count[threads[t].owner]]
    /\ UNCHANGED <<sysVars, ownerVars, listVars, handleVars, report,
                   referable_after_free_handler_mutex>>

\* ... the store of the loaded count minus one, and the unlinking of the
\* node (hpp:118-126).
RegistryRemoveStore(t) ==
    /\ Running /\ threads[t].pc = "remove_loaded"
    /\ LET o == threads[t].owner
           M == ref_counter_remove_ref(Memory, o, NodeOf(threads[t].this))
       IN  FinishStatement(IF M.proc = "running"
                           THEN [M EXCEPT !.cnt[o] = Wrap(threads[t].tmp - 1)]
                           ELSE M,
                           ref_count, value,
                           [threads EXCEPT ![t].pc = "remove_stored"])

\* hpp:127: remove_ref returns, the lock is released and the handle's
\* storage ends.
RegistryRemoveUnlock(t) ==
    /\ Running /\ threads[t].pc = "remove_stored"
    /\ ref_counter_unlock(t, threads[t].owner)
    /\ hstate' = [hstate EXCEPT ![threads[t].this] = "destroyed"]
    /\ threads' = [threads EXCEPT ![t] = [IdleThread EXCEPT
                        !.regs = threads[t].regs, !.deregs = threads[t].deregs + 1]]
    /\ UNCHANGED <<sysVars, ownerVars, next, prev, ref_count, value, report,
                   referable_after_free_handler_mutex>>

\* The shared box is constructed; the threads then construct and destroy
\* handles to it in any interleaving of their steps.
NextRegistry ==
    \/ \E o \in Owners : Quiet /\ ConstructReferable(o)
    \/ \E t \in Threads, h \in Handles : RegistryAddLock(t, h)
    \/ \E t \in Threads : RegistryAddLoad(t)
    \/ \E t \in Threads : RegistryAddStore(t)
    \/ \E t \in Threads : RegistryAddUnlock(t)
    \/ \E t \in Threads, h \in Handles : RegistryRemoveLock(t, h)
    \/ \E t \in Threads : RegistryRemoveLoad(t)
    \/ \E t \in Threads : RegistryRemoveStore(t)
    \/ \E t \in Threads : RegistryRemoveUnlock(t)

InitRegistry == Init /\ strategy = "tracked"

SpecRegistry == InitRegistry /\ [][NextRegistry]_vars

\* While the behaviour is defined, at most one thread is inside the section
\* of each registry, and it is the thread that holds the registry's mutex.
OneInSection ==
    Running =>
        \A o \in Owners : \A t \in Threads :
            InSection(t, o) => mutex[o] = t /\ \A u \in Threads : InSection(u, o) => u = t

\* C32: under the tracked strategy add_ref and remove_ref calls of different
\* threads on one registry exclude each other: at most one thread is inside
\* the mutex-guarded section at a time. So every call takes effect as a whole
\* at its store: the count and the list it leaves are those the same call
\* leaves when it runs alone on the registry as it is at that moment, and
\* while no thread is in a call the count is the number of completed
\* registrations minus the number of completed deregistrations.
C32_MutuallyExclusive ==
    [][/\ OneInSection /\ OneInSection'
       /\ (Running' /\ Quiet')
            => owner_ref_count'[SharedOwner]
                = SumOver(Threads, "regs")' - SumOver(Threads, "deregs")'
       /\ \A t \in Threads :
            LET n == NodeOf(threads[t].this)
                o == threads[t].owner
            IN  /\ (RegistryAddStore(t) /\ Running')
                    => LET M == ref_counter_add_ref(Memory, o, n) IN
                       owner_ref_count' = M.cnt /\ next' = M.nx /\ prev' = M.pv
                /\ (RegistryRemoveStore(t) /\ Running')
                    => LET M == ref_counter_remove_ref(Memory, o, n) IN
                       owner_ref_count' = M.cnt /\ next' = M.nx /\ prev' = M.pv]_vars

\* C32's case: a thread is inside add_ref on the shared registry, between
\* its load and its store, while another thread has entered the destructor
\* of a registered handle and waits for the mutex the first one holds.
C32_Witness ==
    \E t \in Threads, u \in Threads, h \in Handles :
        /\ t # u
        /\ strategy = "tracked" /\ Alive(SharedOwner)
        /\ threads[t].pc = "add_loaded" /\ mutex[SharedOwner] = t
        /\ threads[u].pc = "idle" /\ threads[u].deregs < threads[u].regs
        /\ Registered(h, SharedOwner) /\ ~InUse(h)
        /\ ~ENABLED RegistryRemoveLock(u, h)
        /\ ENABLED (RegistryAddStore(t) /\ Running'
                    /\ owner_ref_count'[SharedOwner] = owner_ref_count[SharedOwner] + 1)

\* ------------------------- a handler that calls back into the library

\* Fault: get_referable_after_free_handler returning with the handler
\* mutex still held by the caller.
DestructorGetReturnLocked(t) ==
    /\ threads[t].pc = "dtor_loaded"
    /\ threads' = [threads EXCEPT ![t].pc = "dtor_call"]
    /\ UNCHANGED <<referable_after_free_handler_instance, referable_after_free_handler_mutex>>
    /\ HandlerFrame

\* hpp:64-68 as the destructor calls it (hpp:223, hpp:228): the scope of
\* `lock` ends with the return, before the returned handler is called.
DestructorGetUnlocked(t) == DestructorGetReturn(t)

\* hpp:223 and hpp:228 with the "reentrant" user handler in the copy that
\* was read: the message is built and the handler is entered; it may set
\* and get the handler and reset handles of the owner before it returns.
DestructorEnterHandler(t) ==
    /\ Running /\ threads[t].pc = "dtor_call" /\ HandlerRead(t) = "reentrant"
    /\ LET o == threads[t].owner
           msg == DestructorMessage(o) IN
       IF WalkLoops(msg) THEN Stop("hung", {"cyclic_list"})
       ELSE IF WalkKinds(msg) # {} THEN Stop("undefined", WalkKinds(msg))
       ELSE /\ report' = [report EXCEPT ![o] = Append(@, [by |-> HandlerRead(t), msg |-> msg])]
            /\ threads' = [threads EXCEPT ![t].pc = "in_handler"]
            /\ UNCHANGED <<sysVars, ownerVars, listVars, handleVars,
                           referable_after_free_handler_mutex>>

\* The handler calls set_referable_after_free_handler(hd), hpp:56 ...
HandlerSetCall(t, hd) ==
    /\ Running /\ threads[t].pc = "in_handler"
    /\ threads' = [threads EXCEPT ![t].pc = "handler_set_call", ![t].arg = hd]
    /\ UNCHANGED <<referable_after_free_handler_instance, referable_after_free_handler_mutex>>
    /\ HandlerFrame

\* ... which takes the lock (hpp:58) ...
HandlerSetLock(t) ==
    /\ Running /\ threads[t].pc = "handler_set_call"
    /\ scoped_lock(t)
    /\ threads' = [threads EXCEPT ![t].pc = "handler_set_locked"]
    /\ UNCHANGED referable_after_free_handler_instance
    /\ HandlerFrame

\* ... stores the handler (hpp:59) ...
HandlerSetStore(t) ==
    /\ Running /\ threads[t].pc = "handler_set_locked"
    /\ referable_after_free_handler_instance' = threads[t].arg
    /\ threads' = [threads EXCEPT ![t].pc = "handler_set_stored"]
    /\ UNCHANGED referable_after_free_handler_mutex
    /\ HandlerFrame

\* ... and returns to the handler, releasing the lock (hpp:60).
HandlerSetReturn(t) ==
    /\ Running /\ threads[t].pc = "handler_set_stored"
    /\ scoped_unlock(t)
    /\ threads' = [threads EXCEPT ![t].pc = "in_handler"]
    /\ UNCHANGED referable_after_free_handler_instance
    /\ HandlerFrame

\* The handler calls get_referable_after_free_handler(), hpp:64 ...
HandlerGetCall(t) ==
    /\ Running /\ threads[t].pc = "in_handler"
    /\ threads' = [threads EXCEPT ![t].pc = "handler_get_call"]
    /\ UNCHANGED <<referable_after_free_handler_instance, referable_after_free_handler_mutex>>
    /\ HandlerFrame

\* ... which takes the lock (hpp:66) ...
HandlerGetLock(t) ==
    /\ Running /\ threads[t].pc = "handler_get_call"
    /\ scoped_lock(t)
    /\ threads' = [threads EXCEPT ![t].pc = "handler_get_locked"]
    /\ UNCHANGED referable_after_free_handler_instance
    /\ HandlerFrame

\* ... copies the slot and returns to the handler, releasing the lock
\* (hpp:67-68); the handler drops the copy.
HandlerGetReturn(t) ==
    /\ Running /\ threads[t].pc = "handler_get_locked"
    /\ scoped_unlock(t)
    /\ threads' = [threads EXCEPT ![t].pc = "in_handler"]
    /\ UNCHANGED referable_after_free_handler_instance
    /\ HandlerFrame

\* The handler calls reset() on a handle registered with the owner being
\* destroyed, hpp:935-939; under the tracked strategy remove_ref() goes on
\* to ref_counter::remove_ref (hpp:112) ...
HandlerResetCall(t, h) ==
    /\ Running /\ strategy = "tracked" /\ threads[t].pc = "in_handler"
    /\ Registered(h, threads[t].owner) /\ ~InUse(h)
    /\ threads' = [threads EXCEPT ![t].pc = "handler_reset_call", ![t].this = h]
    /\ UNCHANGED <<referable_after_free_handler_instance, referable_after_free_handler_mutex>>
    /\ HandlerFrame

\* ... which takes the registry's lock (hpp:114) ...
HandlerResetLock(t) ==
    /\ Running /\ threads[t].pc = "handler_reset_call"
    /\ ref_counter_lock(t, threads[t].owner)
    /\ threads' = [threads EXCEPT ![t].pc = "handler_reset_locked"]
    /\ UNCHANGED <<sysVars, ownerVars, next, prev, handleVars, report,
                   referable_after_free_handler_mutex>>

\* ... lowers the count and unlinks the node (hpp:116-126) ...
HandlerResetRemove(t) ==
    /\ Running /\ threads[t].pc = "handler_reset_locked"
    /\ FinishStatement(ref_counter_remove_ref(Memory, threads[t].owner, NodeOf(threads[t].this)),
                       ref_count, value,
                       [threads EXCEPT ![t].pc = "handler_reset_removed"])

\* ... and returns, releasing the lock (hpp:127); reset() then clears the
\* handle's two pointers (hpp:941-944) and returns to the handler.
HandlerResetReturn(t) ==
    /\ Running /\ threads[t].pc = "handler_reset_removed"
    /\ ref_counter_unlock(t, threads[t].owner)
    /\ ref_count' = [ref_count EXCEPT ![threads[t].this] = NullReg]
    /\ value' = [value EXCEPT ![threads[t].this] = NullValue]
    /\ threads' = [threads EXCEPT ![t].pc = "in_handler", ![t].this = 0]
    /\ UNCHANGED <<sysVars, ownerVars, next, prev, hstate, report,
                   referable_after_free_handler_mutex>>

\* The reentrant handler is put in the slot, boxes and handles are
\* constructed, and threads destroy boxes that still have registered
\* handles; inside the handler a thread sets and gets the handler and
\* resets handles of the box, step by step.
NextReentrant ==
    \/ Quiet /\ set_referable_after_free_handler("reentrant")
    \/ \E o \in Owners : Quiet /\ ConstructReferable(o)
    \/ \E h \in Handles, o \in Owners : Quiet /\ ConstructFromReferable(h, o)
    \/ \E t \in Threads, o \in Owners : DestructorTest(t, o)
    \/ \E t \in Threads : DestructorGetLock(t)
    \/ \E t \in Threads : DestructorGetLoad(t)
    \/ \E t \in Threads : DestructorGetUnlocked(t)
    \/ \E t \in Threads : HandlerRead(t) # "reentrant" /\ DestructorInvoke(t)
    \/ \E t \in Threads : DestructorEnterHandler(t)
    \/ \E t \in Threads, hd \in Handlers : HandlerSetCall(t, hd)
    \/ \E t \in Threads : HandlerSetLock(t)
    \/ \E t \in Threads : HandlerSetStore(t)
    \/ \E t \in Threads : HandlerSetReturn(t)
    \/ \E t \in Threads : HandlerGetCall(t)
    \/ \E t \in Threads : HandlerGetLock(t)
    \/ \E t \in Threads : HandlerGetReturn(t)
    \/ \E t \in Threads, h \in Handles : HandlerResetCall(t, h)
    \/ \E t \in Threads : HandlerResetLock(t)
    \/ \E t \in Threads : HandlerResetRemove(t)
    \/ \E t \in Threads : HandlerResetReturn(t)
    \/ \E t \in Threads, h \in Handles : strategy = "counted" /\ HandlerReset(t, h)
    \/ \E t \in Threads : HandlerReturn(t)

SpecReentrant == Init /\ [][NextReentrant]_vars

\* The mutexes thread t holds: the handler mutex ("handler") and the
\* registry mutexes of owners.
Held(t) ==
    (IF referable_after_free_handler_mutex = t THEN {"handler"} ELSE {})
    \cup {o \in Owners : mutex[o] = t}

\* Thread t waits for a mutex that it holds itself.
WaitsForItself(t) ==
    \/ threads[t].pc \in {"handler_set_call", "handler_get_call"}
        /\ referable_after_free_handler_mutex = t
    \/ threads[t].pc = "handler_reset_call" /\ mutex[threads[t].owner] = t

\* C38: the destructor calls the handler with neither the handler mutex nor
\* a registry mutex held, so a handler that itself calls
\* set_referable_after_free_handler or get_referable_after_free_handler, or
\* that resets handles of the owner being destroyed, never waits for a
\* mutex its own thread holds, and whenever a thread is inside a destructor
\* some thread can take a step.
C38_HandlerCalledUnlocked ==
    Running =>
        /\ \A t \in Threads :
            /\ threads[t].pc = "in_handler" => Held(t) = {}
            /\ ~WaitsForItself(t)
        /\ ~Quiet => ENABLED NextReentrant

\* C38's case: inside the handler called by the destructor of a box, a
\* thread has set the flag handler, has called reset() on a handle of the
\* box and is about to take the registry's mutex, which is free.
C38_Witness ==
    \E t \in Threads :
        /\ strategy = "tracked" /\ Running
        /\ threads[t].pc = "handler_reset_call" /\ threads[t].arg = "flag"
        /\ referable_after_free_handler_instance = "flag"
        /\ Alive(threads[t].owner) /\ Len(report[threads[t].owner]) = 1
        /\ Held(t) = {}
        /\ ENABLED HandlerResetLock(t)

\* --------------------------------------------- every operation completes

\* Handles are constructed and move-assigned while no thread is inside a
\* call; threads set the handler and destroy boxes that still have
\* registered handles, step by step and in any interleaving.
NextBlocking ==
    \/ \E o \in Owners : Quiet /\ ConstructReferable(o)
    \/ \E h \in Handles, o \in Owners : Quiet /\ ConstructFromReferable(h, o)
    \/ \E a \in Handles, b \in Handles : Quiet /\ MoveAssign(a, b)
    \/ \E t \in Threads, hd \in Handlers : ThreadSetLock(t, hd)
    \/ \E t \in Threads : ThreadSetBegin(t)
    \/ \E t \in Threads : ThreadSetStore(t)
    \/ \E t \in Threads : ThreadSetReturn(t)
    \/ \E t \in Threads, o \in Owners : DestructorTest(t, o)
    \/ \E t \in Threads : DestructorGetLock(t)
    \/ \E t \in Threads : DestructorGetLoad(t)
    \/ \E t \in Threads : DestructorGetReturn(t)
    \/ \E t \in Threads : DestructorInvoke(t)

\* A step of thread t inside a call that waits for nothing.
Proceed(t) ==
    \/ ThreadSetBegin(t) \/ ThreadSetStore(t) \/ ThreadSetReturn(t)
    \/ DestructorGetLoad(t) \/ DestructorGetReturn(t) \/ DestructorInvoke(t)

\* The step of thread t that waits for the handler mutex, hpp:66.
Acquire(t) == DestructorGetLock(t)

\* Fair scheduling: a thread that can proceed does, and a thread waiting
\* for a mutex that is released again and again gets it.
FairScheduling ==
    \A t \in Threads : WF_vars(Proceed(t)) /\ SF_vars(Acquire(t))

SpecBlocking == InitRegistry /\ [][NextBlocking]_vars

SpecBlockingFair == SpecBlocking /\ FairScheduling

====
